---- MODULE Spec2Model ----
(***************************************************************************)
(* A model of tm: the flat-file record store (crates/tm-core/src/lib.rs),  *)
(* the ex-command parser (crates/tm-core/src/ex.rs), the keymap            *)
(* (crates/tm-core/src/keymap.rs), the terminal session                    *)
(* (crates/tm-ui/src/lib.rs) and the graphical front-end                   *)
(* (crates/tm-gui/src/lib.rs).                                             *)
(*                                                                         *)
(* A string is a sequence of one-character strings: <<"n","e","w">> is the *)
(* Rust string "new".  An Option is a sequence of length at most one.      *)
(***************************************************************************)
EXTENDS Naturals, Integers, Sequences, FiniteSets, TLC

VARIABLES
    files,      \* <vault>/tasks: path of a file |-> its content
    projFiles,  \* <vault>/projects: file stem |-> its content
    now,        \* the wall clock read by OffsetDateTime::now_utc()
    issued,     \* how many identifiers Ulid::new() has handed out
    calls,      \* how many calls have been made into the store
    last,       \* history: the last call into the store and its result
    track,      \* history: the run of cycle_status calls on one task
    listed,     \* history: what the last list_tasks / list_projects returned
    \* the locals of run_tui
    session,            \* "running", "quit" (the loop was left) or "panicked"
    keymap,
    selected,
    last_key,
    filter,
    input_mode,
    input_buf,
    ex_mode,
    ex_input,
    ex_result,
    projects,
    cur_project,
    project_pick_idx,
    \* the graphical front-end
    app,        \* the fields of App
    focus,      \* the text field that has the keyboard focus, or "none"
    events,     \* how many keys and clicks the front-end has handled, buffer edits aside
    pressed,    \* history: the mode the last key was handled in, and its code
    acted,      \* history: what the last key found and the action it ran
    config,     \* history: the user's configuration file as the last load found it
    inflight    \* the other processes on the vault: what each has read and not yet written

storeVars == <<files, projFiles, now, issued, calls>>
histVars == <<last, track, listed>>
tuiVars == <<session, keymap, selected, last_key, filter, input_mode, input_buf, ex_mode,
             ex_input, ex_result, projects, cur_project, project_pick_idx>>
guiVars == <<app, focus>>
frontVars == <<tuiVars, guiVars, events, pressed, acted, config, inflight>>
vars == <<files, projFiles, now, issued, calls, last, track, listed, session, keymap,
          selected, last_key, filter, input_mode, input_buf, ex_mode, ex_input, ex_result,
          projects, cur_project, project_pick_idx, app, focus, events, pressed, acted,
          config, inflight>>

(***************************************************************************)
(* Bounds of the model.                                                    *)
(***************************************************************************)
MaxClock == 4
MaxIssued == 2
MaxCalls == 3
MaxEvents == 3
TicksPerDay == 2
MaxTasks == 3
MaxCsv == 3

(***************************************************************************)
(* Options and characters.                                                 *)
(***************************************************************************)
None == <<>>
Some(x) == <<x>>
IsSome(o) == o # <<>>

NL == "\n"
LowerSeq == <<"a","b","c","d","e","f","g","h","i","j","k","l","m",
              "n","o","p","q","r","s","t","u","v","w","x","y","z">>
UpperSeq == <<"A","B","C","D","E","F","G","H","I","J","K","L","M",
              "N","O","P","Q","R","S","T","U","V","W","X","Y","Z">>
DigitSeq == <<"0","1","2","3","4","5","6","7","8","9">>
Range(s) == {s[i] : i \in 1..Len(s)}
IsUpper(c) == c \in Range(UpperSeq)
IsAlnum(c) == c \in Range(LowerSeq) \cup Range(UpperSeq) \cup Range(DigitSeq)
to_ascii_lowercase(c) ==
    IF IsUpper(c) THEN LowerSeq[CHOOSE i \in 1..26 : UpperSeq[i] = c] ELSE c
to_ascii_uppercase(c) ==
    IF c \in Range(LowerSeq) THEN UpperSeq[CHOOSE i \in 1..26 : LowerSeq[i] = c] ELSE c

RECURSIVE to_lowercase(_)
to_lowercase(s) ==
    IF s = <<>> THEN <<>> ELSE <<to_ascii_lowercase(Head(s))>> \o to_lowercase(Tail(s))

\* slug::slugify: alphanumerics lowercased, every other run of characters
\* becomes one '-', no leading and no trailing '-'.
RECURSIVE slug_push(_, _)
slug_push(s, out) ==
    IF s = <<>> THEN out
    ELSE IF IsAlnum(Head(s))
         THEN slug_push(Tail(s), Append(out, to_ascii_lowercase(Head(s))))
    ELSE IF out = <<>> \/ out[Len(out)] = "-"
         THEN slug_push(Tail(s), out)
    ELSE slug_push(Tail(s), Append(out, "-"))

slugify(s) ==
    LET r == slug_push(s, <<>>)
    IN IF r # <<>> /\ r[Len(r)] = "-" THEN SubSeq(r, 1, Len(r) - 1) ELSE r

(***************************************************************************)
(* Status (lib.rs, impl Status).                                           *)
(***************************************************************************)
S_todo == <<"t","o","d","o">>
S_doing == <<"d","o","i","n","g">>
S_done == <<"d","o","n","e">>
S_in_progress == <<"i","n","-","p","r","o","g","r","e","s","s">>
S_in_progress_u == <<"i","n","_","p","r","o","g","r","e","s","s">>
S_blocked == <<"b","l","o","c","k","e","d">>

Status == {"Todo", "Doing", "Done"}

Status_as_str(st) ==
    CASE st = "Todo" -> S_todo
      [] st = "Doing" -> S_doing
      [] st = "Done" -> S_done

\* a decoder that takes the names it does not know for Done
Status_from_str_unknown_done(s) ==
    IF s = S_doing \/ s = S_in_progress \/ s = S_in_progress_u THEN "Doing"
    ELSE IF s = S_todo THEN "Todo"
    ELSE "Done"

Status_from_str(s) ==
    IF s = S_doing \/ s = S_in_progress \/ s = S_in_progress_u THEN "Doing"
    ELSE IF s = S_done THEN "Done"
    ELSE "Todo"

Status_next_no_wrap(st) ==
    CASE st = "Todo" -> "Doing"
      [] st = "Doing" -> "Done"
      [] st = "Done" -> "Done"

Status_next(st) ==
    CASE st = "Todo" -> "Doing"
      [] st = "Doing" -> "Done"
      [] st = "Done" -> "Todo"

Status_prev(st) ==
    CASE st = "Todo" -> "Done"
      [] st = "Doing" -> "Todo"
      [] st = "Done" -> "Doing"

(***************************************************************************)
(* Files.  The content of a file is described by what the two regular      *)
(* expressions of lib.rs see in it:                                        *)
(*   shape "ok"      starts with "---\n", holds a later "\n---", and the   *)
(*                   text between them deserializes as a Frontmatter;      *)
(*   shape "nofm"    the regular expression does not match;                *)
(*   shape "badyaml" it matches and serde_yaml rejects the text between.   *)
(* fm is the deserialized metadata and tail the text after the first       *)
(* "\n---".                                                                *)
(***************************************************************************)
S_none == <<"n","o","n","e">>
S_active == <<"a","c","t","i","v","e">>
S_inbox == <<"i","n","b","o","x">>

NoFm == [id |-> <<>>, key |-> <<>>, title |-> <<>>, status |-> <<>>,
         project |-> <<>>, tags |-> <<>>, priority |-> <<>>, due |-> None,
         created |-> None, updated |-> None, parent |-> None]

DateOf(t) == t \div TicksPerDay

TaskPath(date, slug, id) == [date |-> date, slug |-> slug, id |-> id, ext |-> "md"]

\* Frontmatter::to_markdown("---\n"): "---\n" yml "---\n" "\n"
to_markdown(fm) == [shape |-> "ok", fm |-> fm, tail |-> <<NL, NL>>]

\* format!("---\n{}---\n{}", serde_yaml::to_string(&fm)?, body)
encode_as_to_markdown(fm, body) == [shape |-> "ok", fm |-> fm, tail |-> <<NL, NL>> \o body]
encode(fm, body) == [shape |-> "ok", fm |-> fm, tail |-> <<NL>> \o body]

\* ^---\n(.*?)\n--- and serde_yaml::from_str
extract_frontmatter(f) ==
    IF f.shape = "ok" THEN [ok |-> TRUE, fm |-> f.fm] ELSE [ok |-> FALSE, fm |-> NoFm]

\* ^---\n(.*?)\n---\n?(.*)$ : one newline after the delimiter is not body
extract_frontmatter_and_body(f) ==
    IF f.shape = "ok"
    THEN [ok |-> TRUE, fm |-> f.fm,
          body |-> IF f.tail # <<>> /\ Head(f.tail) = NL THEN Tail(f.tail) ELSE f.tail]
    ELSE [ok |-> FALSE, fm |-> NoFm, body |-> <<>>]

\* fs::write / File::create + write_all
write(fs, path, content) ==
    [p \in (DOMAIN fs) \cup {path} |-> IF p = path THEN content ELSE fs[p]]

\* fs::rename: the file moves, replacing whatever is at the new path
\* a rename that leaves the file at its old path as well
rename_copying(fs, from, to) ==
    [p \in (DOMAIN fs) \cup {to} |-> IF p = to THEN fs[from] ELSE fs[p]]

rename(fs, from, to) ==
    [p \in ((DOMAIN fs) \ {from}) \cup {to} |-> IF p = to THEN fs[from] ELSE fs[p]]

\* the files WalkDir yields with extension "md"
md_files(fs) == {p \in DOMAIN fs : p.ext = "md"}

\* find_task_file_by_id: the files the scan can return; it returns the
\* first one in directory order, and none when there is none.
find_candidates(fs, id) ==
    {p \in md_files(fs) : extract_frontmatter(fs[p]).ok /\ extract_frontmatter(fs[p]).fm.id = id}

find_task_file_by_id(fs, id) ==
    IF find_candidates(fs, id) = {} THEN None
    ELSE Some(CHOOSE p \in find_candidates(fs, id) : TRUE)

(***************************************************************************)
(* Ordering of strings (str::cmp is bytewise) and sorting.                 *)
(***************************************************************************)
AsciiSeq == <<NL, " ", "!", "\"", "+", ",", "-", ".", "/">> \o DigitSeq \o <<":">>
            \o UpperSeq \o <<"[", "]", "_">> \o LowerSeq
Ord(c) == CHOOSE i \in 1..Len(AsciiSeq) : AsciiSeq[i] = c

RECURSIVE str_le(_, _)
str_le(a, b) ==
    IF a = <<>> THEN TRUE
    ELSE IF b = <<>> THEN FALSE
    ELSE IF Head(a) = Head(b) THEN str_le(Tail(a), Tail(b))
    ELSE Ord(Head(a)) < Ord(Head(b))

Perms(S) == {f \in [1..Cardinality(S) -> S] : \A x \in S : \E i \in DOMAIN f : f[i] = x}

\* Option<String>::unwrap_or_default() of a timestamp: a missing one is "",
\* which sorts before every timestamp (the clock reads 1 or more).
\* now.format(&Rfc3339) of the instant t: the date, then the time of day in
\* UTC.  The ticks of a day are tenths of a second from its first second; the
\* fraction of a second is written without trailing zeros, and not at all
\* when it is zero ("...:50Z", "...:50.1Z").  The hours, minutes and seconds,
\* the same in every text here, are left out.
Rfc3339(t) ==
    <<DigitSeq[DateOf(t) + 1], "T">>
        \o (IF t % TicksPerDay = 0 THEN <<>> ELSE <<".", DigitSeq[(t % TicksPerDay) + 1]>>)
        \o <<"Z">>

\* fm.updated.unwrap_or_default(): the text of the file, "" when absent.  A
\* file holds the text of the instant the model keeps in fm.updated.
unwrap_or_default(ts) == IF ts = None THEN <<>> ELSE Rfc3339(ts[1])

(***************************************************************************)
(* The store (lib.rs, impl Vault).  Each operation is a function of the    *)
(* vault it finds, its arguments and the clock value it reads.             *)
(***************************************************************************)
\* Ulid::new(): the n-th identifier handed out, unlike every other one
IdOf_repeating(n) == <<DigitSeq[2]>>
IdOf(n) == <<DigitSeq[n + 1]>>

create_task_id_from_slug(fs, t, id, tnow) ==
    LET slug == slugify(t.title)
        file == TaskPath(DateOf(tnow), slug, id)
        frontmatter == [id |-> slug, key |-> id, title |-> t.title, status |-> S_todo,
                        project |-> t.project, tags |-> t.tags, priority |-> S_none,
                        due |-> t.due, created |-> Some(tnow), updated |-> Some(tnow),
                        parent |-> None]
    IN [ok |-> TRUE, files |-> write(fs, file, to_markdown(frontmatter)),
        id |-> id, path |-> Some(file), err |-> ""]

create_task(fs, t, id, tnow) ==
    LET slug == slugify(t.title)
        file == TaskPath(DateOf(tnow), slug, id)
        frontmatter == [id |-> id, key |-> slug, title |-> t.title, status |-> S_todo,
                        project |-> t.project, tags |-> t.tags, priority |-> S_none,
                        due |-> t.due, created |-> Some(tnow), updated |-> Some(tnow),
                        parent |-> None]
    IN [ok |-> TRUE, files |-> write(fs, file, to_markdown(frontmatter)),
        id |-> id, path |-> Some(file), err |-> ""]

\* .with_context(|| format!("task {id} not found"))? and the other early returns
Fail_swallowed(fs, msg) == [ok |-> TRUE, files |-> fs, id |-> <<>>, path |-> None, err |-> msg]
Fail(fs, msg) == [ok |-> FALSE, files |-> fs, id |-> <<>>, path |-> None, err |-> msg]
Done(fs, path) == [ok |-> TRUE, files |-> fs, id |-> <<>>, path |-> Some(path), err |-> ""]

\* the head of every mutation: locate by id, read, decode
locate(fs, id) ==
    LET found == find_task_file_by_id(fs, id)
    IN IF found = None
       THEN [ok |-> FALSE, path |-> None, fm |-> NoFm, body |-> <<>>, err |-> "task not found"]
       ELSE LET d == extract_frontmatter_and_body(fs[found[1]])
            IN [ok |-> d.ok, path |-> found, fm |-> d.fm, body |-> d.body,
                err |-> IF d.ok THEN "" ELSE "invalid frontmatter"]

\* the tail of every mutation: refresh updated, re-encode the whole file, write
commit_touching_created(fs, l, fm, tnow) ==
    Done(write(fs, l.path[1],
               encode([fm EXCEPT !.updated = Some(tnow), !.created = Some(tnow)], l.body)),
         l.path[1])
commit(fs, l, fm, tnow) ==
    Done(write(fs, l.path[1], encode([fm EXCEPT !.updated = Some(tnow)], l.body)), l.path[1])

set_status(fs, id, status, tnow) ==
    LET l == locate(fs, id)
    IN IF ~l.ok THEN Fail(fs, l.err)
       ELSE commit(fs, l, [l.fm EXCEPT !.status = Status_as_str(status)], tnow)

cycle_status(fs, id, direction, tnow) ==
    LET l == locate(fs, id)
        cur == Status_from_str(l.fm.status)
        next == IF direction >= 0 THEN Status_next(cur) ELSE Status_prev(cur)
    IN IF ~l.ok THEN [res |-> Fail(fs, l.err), status |-> "Todo"]
       ELSE [res |-> set_status(fs, id, next, tnow), status |-> next]

set_due(fs, id, due, tnow) ==
    LET l == locate(fs, id)
    IN IF ~l.ok THEN Fail(fs, l.err)
       ELSE commit(fs, l, [l.fm EXCEPT !.due = Some(due)], tnow)

QUOTE == "\""
SP == " "

RECURSIVE trim_start(_)
trim_start(s) == IF s # <<>> /\ Head(s) \in {SP, NL} THEN trim_start(Tail(s)) ELSE s

RECURSIVE trim_end(_)
trim_end(s) ==
    IF s # <<>> /\ s[Len(s)] \in {SP, NL} THEN trim_end(SubSeq(s, 1, Len(s) - 1)) ELSE s

trim(s) == trim_end(trim_start(s))

\* str::split([',', ' ']): the pieces between separators, empty ones included
RECURSIVE split(_, _, _)
split(s, seps, cur) ==
    IF s = <<>> THEN <<cur>>
    ELSE IF Head(s) \in seps THEN <<cur>> \o split(Tail(s), seps, <<>>)
    ELSE split(Tail(s), seps, Append(cur, Head(s)))

RECURSIVE trim_start_matches(_, _)
trim_start_matches(s, c) ==
    IF s # <<>> /\ Head(s) = c THEN trim_start_matches(Tail(s), c) ELSE s

RECURSIVE SelectNonEmpty(_)
SelectNonEmpty(ss) ==
    IF ss = <<>> THEN <<>>
    ELSE IF Head(ss) = <<>> THEN SelectNonEmpty(Tail(ss))
    ELSE <<Head(ss)>> \o SelectNonEmpty(Tail(ss))

\* split, trim each item, drop the empty ones, and then remove the leading '+'
tags_of_csv(csv) ==
    LET items == split(csv, {",", SP}, <<>>)
        kept == SelectNonEmpty([i \in 1..Len(items) |-> trim(items[i])])
    IN [i \in 1..Len(kept) |-> trim_start_matches(kept[i], "+")]

set_tags_csv(fs, id, csv, tnow) ==
    LET l == locate(fs, id)
    IN IF ~l.ok THEN Fail(fs, l.err)
       ELSE commit(fs, l, [l.fm EXCEPT !.tags = tags_of_csv(csv)], tnow)

\* a rename_title that hands on the error of the fs::rename
rename_title_surfacing(fs, id, new_title, tnow, renameOk) ==
    LET l == locate(fs, id)
        new_slug == slugify(new_title)
        w == commit(fs, l, [l.fm EXCEPT !.title = new_title, !.key = new_slug], tnow)
        path == l.path[1]
        new_path == [path EXCEPT !.slug = new_slug, !.id = id]
    IN IF ~l.ok THEN Fail(fs, l.err)
       ELSE IF new_path # path /\ renameOk
            THEN Done(rename(w.files, path, new_path), new_path)
       ELSE IF new_path # path THEN Fail(w.files, "rename failed")
       ELSE w

\* the metadata is written first; then the file is renamed, and a failure of
\* that rename (renameOk = FALSE) is dropped
rename_title(fs, id, new_title, tnow, renameOk) ==
    LET l == locate(fs, id)
        new_slug == slugify(new_title)
        w == commit(fs, l, [l.fm EXCEPT !.title = new_title, !.key = new_slug], tnow)
        path == l.path[1]
        new_path == [path EXCEPT !.slug = new_slug, !.id = id]
    IN IF ~l.ok THEN Fail(fs, l.err)
       ELSE IF new_path # path /\ renameOk
            THEN Done(rename(w.files, path, new_path), new_path)
       ELSE w

(***************************************************************************)
(* A mutation in two steps, as a process of its own runs it beside others: *)
(* the file is located, read and decoded; later the one field is changed   *)
(* in what was read and the whole file is written.                         *)
(***************************************************************************)
Procs == {1, 2}
Mutation(op, status, text) == [op |-> op, status |-> status, text |-> text]
Mutations ==
    {Mutation("set_status", "Done", <<>>), Mutation("set_status", "Doing", <<>>),
     Mutation("set_due", "Todo", <<"1">>), Mutation("set_tags_csv", "Todo", <<"x">>)}
NoRead == [ok |-> FALSE, path |-> None, fm |-> NoFm, body |-> <<>>, err |-> ""]
NoFlight == [pc |-> "idle", m |-> Mutation("", "Todo", <<>>), l |-> NoRead]
NoFlights == [p \in Procs |-> NoFlight]

\* the one field the mutation changes in the metadata it decoded
mutate(fm, m) ==
    CASE m.op = "set_status" -> [fm EXCEPT !.status = Status_as_str(m.status)]
      [] m.op = "set_due" -> [fm EXCEPT !.due = Some(m.text)]
      [] m.op = "set_tags_csv" -> [fm EXCEPT !.tags = tags_of_csv(m.text)]

\* the whole of a mutation, on the vault fs
mutation(fs, id, m, tnow) ==
    CASE m.op = "set_status" -> set_status(fs, id, m.status, tnow)
      [] m.op = "set_due" -> set_due(fs, id, m.text, tnow)
      [] m.op = "set_tags_csv" -> set_tags_csv(fs, id, m.text, tnow)

\* a write that reads the file again and changes the field in what it finds
write_back_rereading(fs, id, f, tnow) ==
    LET l == locate(fs, id)
    IN IF ~l.ok THEN Fail(fs, l.err) ELSE commit(fs, l, mutate(l.fm, f.m), tnow)

\* the second half of the mutation f: what was read, with the field changed
\* and updated refreshed, is encoded and written over the file
write_back(fs, id, f, tnow) ==
    IF ~f.l.ok THEN Fail(fs, f.l.err) ELSE commit(fs, f.l, mutate(f.l.fm, f.m), tnow)

\* Task::from_md_file
Task_from_md_file(f) ==
    LET d == extract_frontmatter(f)
    IN [ok |-> d.ok,
        task |-> [id |-> d.fm.id, title |-> d.fm.title, status |-> d.fm.status,
                  project |-> d.fm.project, updated |-> unwrap_or_default(d.fm.updated)]]

\* a listing that gives up at the first file it cannot decode
list_tasks_strict(fs) ==
    IF \E p \in md_files(fs) : ~Task_from_md_file(fs[p]).ok THEN {<<>>}
    ELSE {[i \in DOMAIN o |-> Task_from_md_file(fs[o[i]]).task] :
            o \in Perms(md_files(fs))}

\* list_tasks: the decodable .md files, sorted by the updated text descending
\* (String::cmp) with a stable sort, so files with equal texts stay in
\* directory order, which is any order.  The set of the listings the call can
\* return.
list_tasks(fs) ==
    LET good == {p \in md_files(fs) : Task_from_md_file(fs[p]).ok}
        sorted == {o \in Perms(good) :
                     \A i, j \in DOMAIN o :
                        i < j => str_le(Task_from_md_file(fs[o[j]]).task.updated,
                                        Task_from_md_file(fs[o[i]]).task.updated)}
    IN {[i \in DOMAIN o |-> Task_from_md_file(fs[o[i]]).task] : o \in sorted}

(***************************************************************************)
(* Projects.                                                               *)
(***************************************************************************)
NoProjectFm == [key |-> <<>>, title |-> <<>>, status |-> <<>>, tags |-> <<>>,
                created |-> None, updated |-> None, description |-> None]

\* a create_project that leaves a project file it finds as it is
create_project_keeping(pf, p, tnow) ==
    LET key == slugify(p.title)
        fm == [key |-> key, title |-> p.title, status |-> S_active, tags |-> p.tags,
               created |-> Some(tnow), updated |-> Some(tnow), description |-> None]
    IN [ok |-> TRUE,
        projFiles |-> IF key \in DOMAIN pf THEN pf ELSE write(pf, key, [shape |-> "ok", fm |-> fm]),
        key |-> key]

create_project(pf, p, tnow) ==
    LET key == slugify(p.title)
        fm == [key |-> key, title |-> p.title, status |-> S_active, tags |-> p.tags,
               created |-> Some(tnow), updated |-> Some(tnow), description |-> None]
    IN [ok |-> TRUE, projFiles |-> write(pf, key, [shape |-> "ok", fm |-> fm]), key |-> key]

Project_from_md_file(f) ==
    LET fm == IF f.shape = "ok" THEN f.fm ELSE NoProjectFm
    IN [ok |-> f.shape = "ok",
        project |-> [key |-> fm.key, title |-> fm.title, status |-> fm.status,
                     tags |-> fm.tags, updated |-> unwrap_or_default(fm.updated)]]

\* b.updated.cmp(&a.updated).then(a.title.cmp(&b.title)) is not Greater
project_le(a, b) ==
    \/ ~str_le(a.updated, b.updated)
    \/ a.updated = b.updated /\ str_le(a.title, b.title)

\* the file name of projects/<key>.md
project_file_path(key) == key \o <<".", "m", "d">>

\* Path::extension: what follows the last '.' of the file name; None when
\* the name has no '.', and when its only '.' is its first character
extension(name) ==
    LET dots == {i \in 1..Len(name) : name[i] = "."}
        at == CHOOSE i \in dots : \A j \in dots : j <= i
    IN IF dots = {} \/ at = 1 THEN None ELSE Some(SubSeq(name, at + 1, Len(name)))

\* the project files the walk keeps: those whose extension is md
list_project_files(pf) ==
    {k \in DOMAIN pf : extension(project_file_path(k)) = Some(<<"m", "d">>)}

list_projects(pf) ==
    LET good == {k \in list_project_files(pf) : Project_from_md_file(pf[k]).ok}
        sorted == {o \in Perms(good) :
                     \A i, j \in DOMAIN o :
                        i < j => project_le(Project_from_md_file(pf[o[i]]).project,
                                            Project_from_md_file(pf[o[j]]).project)}
    IN {[i \in DOMAIN o |-> Project_from_md_file(pf[o[i]]).project] : o \in sorted}

(***************************************************************************)
(* The store driven call by call, as the one-shot command line and the     *)
(* front-ends drive it.                                                    *)
(***************************************************************************)
Titles == {<<>>, <<"B", "!", "c">>}
ProjectKeys == {S_inbox, <<"h">>}
\* ls [--project P]
ProjectFilters == {None} \cup {Some(k) : k \in ProjectKeys}
DueTexts == {<<"1">>}
TagTexts == {<<"+", "x", ",", " ", "y">>, <<>>}
Directions == {1, -1}
\* ProjectNew: a title of its own, and one whose slug is the key of a project
\* a vault may hold
NewProjects ==
    {[title |-> <<"B", "!", "c">>, tags |-> <<>>],
     [title |-> <<"h">>, tags |-> << <<"x">> >>]}
NewTasks ==
    {[title |-> <<>>, project |-> S_inbox, due |-> None, tags |-> <<>>],
     [title |-> <<"a">>, project |-> <<"h">>, due |-> Some(<<"2">>),
      tags |-> << <<"x">> >>]}

LegacyId == <<"8">>
CorruptId == <<"9">>
\* the identifiers a caller passes: those of the tasks of the vault, and one
\* that no file decodes to
KnownIds(fs) == {fs[p].fm.id : p \in {q \in DOMAIN fs : fs[q].shape = "ok"}}
Ids == KnownIds(files) \cup {CorruptId}

\* A file written by another tool: a status name this program never writes,
\* no updated timestamp, and a body.
LegacyFile(status, tail) ==
    [shape |-> "ok",
     fm |-> [id |-> LegacyId, key |-> <<"l">>, title |-> <<"L">>, status |-> status,
             project |-> <<"h">>, tags |-> <<>>, priority |-> S_none, due |-> None,
             created |-> Some(0), updated |-> None, parent |-> None],
     tail |-> tail]
LegacyPath == TaskPath(0, <<"l">>, LegacyId)
CorruptPath == TaskPath(0, <<"x">>, CorruptId)
CorruptFile(shape) == [shape |-> shape, fm |-> [NoFm EXCEPT !.id = CorruptId], tail |-> <<>>]

LegacyProject ==
    [shape |-> "ok",
     fm |-> [key |-> <<"h">>, title |-> <<"H">>, status |-> S_active, tags |-> <<>>,
             created |-> Some(0), updated |-> None, description |-> None]]
CorruptProject(shape) == [shape |-> shape, fm |-> NoProjectFm]

Vault(legacy, corrupt) ==
    [p \in (IF legacy = None THEN {} ELSE {LegacyPath})
           \cup (IF corrupt = None THEN {} ELSE {CorruptPath}) |->
        IF p = LegacyPath THEN LegacyFile(legacy[1].status, legacy[1].tail)
        ELSE CorruptFile(corrupt[1])]

Projects(legacy, corrupt) ==
    [k \in (IF legacy = None THEN {} ELSE {<<"h">>})
           \cup (IF corrupt = None THEN {} ELSE {<<"z">>}) |->
        IF k = <<"h">> THEN LegacyProject ELSE CorruptProject(corrupt[1])]

\* the vaults a session can find
Starts ==
    {<<None, None>>,
     <<Some([status |-> S_blocked, tail |-> <<>>]), None>>,
     <<Some([status |-> S_in_progress, tail |-> <<>>]), Some("nofm")>>,
     <<Some([status |-> S_done, tail |-> <<"-", NL, "x">>]), Some("badyaml")>>}

\* renamed: whether the file system let the fs::rename of the call, if it
\* made one, succeed
Call(op, id, ok, path, arg) ==
    [op |-> op, id |-> id, ok |-> ok, path |-> path, arg |-> arg, renamed |-> FALSE]
NoCall == Call("", <<>>, FALSE, None, <<>>)
NoTrack == [id |-> <<>>, from |-> <<>>, dirs |-> <<>>]
NoListing == [op |-> "", project |-> None, tasks |-> <<>>, projects |-> <<>>]

(***************************************************************************)
(* The ex-command parser (ex.rs).                                          *)
(***************************************************************************)
starts_with(s, p) == Len(s) >= Len(p) /\ SubSeq(s, 1, Len(p)) = p
strip_prefix(s, p) == IF starts_with(s, p) THEN Some(SubSeq(s, Len(p) + 1, Len(s))) ELSE None

W_new == <<"n","e","w">>
W_status == <<"s","t","a","t","u","s">>
W_open == <<"o","p","e","n">>
W_project_new == <<"p","r","o","j","e","c","t",".","n","e","w">>
W_config_reload == <<"c","o","n","f","i","g",".","r","e","l","o","a","d">>
W_next == <<"n","e","x","t">>
W_prev == <<"p","r","e","v">>
P_project == <<"p","r","o","j","e","c","t",":">>
P_due == <<"d","u","e",":">>
P_plus == <<"+">>

StatusSet == {"Todo", "Doing", "Done", "Next", "Prev"}

\* impl FromStr for StatusSet
StatusSet_from_str(s) ==
    IF s = S_todo THEN [ok |-> TRUE, set |-> "Todo"]
    ELSE IF s = S_doing \/ s = S_in_progress \/ s = S_in_progress_u
         THEN [ok |-> TRUE, set |-> "Doing"]
    ELSE IF s = S_done THEN [ok |-> TRUE, set |-> "Done"]
    ELSE IF s = W_next THEN [ok |-> TRUE, set |-> "Next"]
    ELSE IF s = W_prev THEN [ok |-> TRUE, set |-> "Prev"]
    ELSE [ok |-> FALSE, set |-> ""]

\* the loop of tokenize: a '"' toggles in_quotes and is dropped, a ' ' outside
\* quotes ends the current token, an empty token is never pushed
RECURSIVE tokenize_chars(_, _, _, _)
tokenize_chars(s, out, cur, in_quotes) ==
    IF s = <<>> THEN (IF cur # <<>> THEN Append(out, cur) ELSE out)
    ELSE IF Head(s) = QUOTE THEN tokenize_chars(Tail(s), out, cur, ~in_quotes)
    ELSE IF Head(s) = SP /\ ~in_quotes
         THEN tokenize_chars(Tail(s), IF cur # <<>> THEN Append(out, cur) ELSE out,
                             <<>>, in_quotes)
    ELSE tokenize_chars(Tail(s), out, Append(cur, Head(s)), in_quotes)

tokenize(input) == tokenize_chars(input, <<>>, <<>>, FALSE)

\* A message: a format string and the values put into it.
Msg(text, args) == [text |-> text, args |-> args]
NoMsg == Msg("", <<>>)

\* ExCommand, one record shape for its five variants
NoCmd == [tag |-> "", title |-> <<>>, project |-> None, tags |-> <<>>, due |-> None,
          id |-> None, set |-> "", key |-> <<>>]

\* the three ways parse_ex ends: Ok(cmd), Err(e), and a panic that unwinds
\* through the caller
Parsed(cmd) == [kind |-> "ok", cmd |-> cmd, err |-> NoMsg]
Bail(text, args) == [kind |-> "err", cmd |-> NoCmd, err |-> Msg(text, args)]
Panics == [kind |-> "panic", cmd |-> NoCmd, err |-> NoMsg]

IsFlag(t) == starts_with(t, P_project) \/ starts_with(t, P_plus) \/ starts_with(t, P_due)

\* for t in toks { ... } of the "new" family
RECURSIVE new_fields(_, _)
new_fields(toks, acc) ==
    IF toks = <<>> THEN acc
    ELSE LET t == Head(toks)
         IN new_fields(Tail(toks),
                IF starts_with(t, P_project)
                THEN [acc EXCEPT !.project = strip_prefix(t, P_project)]
                ELSE IF starts_with(t, P_due)
                THEN [acc EXCEPT !.due = strip_prefix(t, P_due)]
                ELSE IF starts_with(t, P_plus)
                THEN (IF Len(t) > 1
                      THEN [acc EXCEPT !.tags = Append(@, strip_prefix(t, P_plus)[1])]
                      ELSE acc)
                ELSE IF acc.title = <<>> THEN [acc EXCEPT !.title = t]
                ELSE acc)

\* a parser that takes the token after the command word for the title
parse_new_title_first(toks) ==
    IF toks = <<>> THEN Bail(":new requires a title (quoted if it has spaces)", <<>>)
    ELSE Parsed(new_fields(Tail(toks), [NoCmd EXCEPT !.tag = "New", !.title = toks[1]]))

parse_new(toks) ==
    LET first == toks # <<>> /\ ~IsFlag(toks[1])
        start == IF first THEN [NoCmd EXCEPT !.tag = "New", !.title = toks[1]]
                 ELSE [NoCmd EXCEPT !.tag = "New"]
        cmd == new_fields(IF first THEN Tail(toks) ELSE toks, start)
    IN IF cmd.title = <<>> THEN Bail(":new requires a title (quoted if it has spaces)", <<>>)
       ELSE Parsed(cmd)

\* a parser that takes the token after the command word for the status
parse_status_set_first(toks) ==
    IF Len(toks) = 0 THEN Bail("usage: :status [<id>] (todo|doing|done|next|prev)", <<>>)
    ELSE IF ~StatusSet_from_str(toks[1]).ok THEN Bail("unknown status '{s}'", <<toks[1]>>)
    ELSE Parsed([NoCmd EXCEPT !.tag = "Status",
                              !.id = IF Len(toks) = 1 THEN None ELSE Some(toks[2]),
                              !.set = StatusSet_from_str(toks[1]).set])

parse_status(toks) ==
    LET id_opt == IF Len(toks) = 1 THEN None ELSE Some(toks[1])
        set_str == IF Len(toks) = 1 THEN toks[1] ELSE toks[2]
    IN IF Len(toks) = 0 THEN Bail("usage: :status [<id>] (todo|doing|done|next|prev)", <<>>)
       ELSE IF ~StatusSet_from_str(set_str).ok THEN Bail("unknown status '{s}'", <<set_str>>)
       ELSE Parsed([NoCmd EXCEPT !.tag = "Status", !.id = id_opt,
                                 !.set = StatusSet_from_str(set_str).set])

\* for t in toks { ... } of the "open" family: the last project: token wins
RECURSIVE open_key(_, _)
open_key(toks, key) ==
    IF toks = <<>> THEN key
    ELSE open_key(Tail(toks),
                  IF starts_with(Head(toks), P_project) THEN strip_prefix(Head(toks), P_project)
                  ELSE key)

parse_open(toks) ==
    LET key == open_key(toks, None)
    IN Parsed([NoCmd EXCEPT !.tag = "OpenProject", !.key = IF key = None THEN <<>> ELSE key[1]])

\* for t in toks { ... } of the "project.new" family
RECURSIVE project_new_fields(_, _)
project_new_fields(toks, acc) ==
    IF toks = <<>> THEN acc
    ELSE LET t == Head(toks)
         IN project_new_fields(Tail(toks),
                IF starts_with(t, P_plus)
                THEN (IF Len(t) > 1
                      THEN [acc EXCEPT !.tags = Append(@, strip_prefix(t, P_plus)[1])]
                      ELSE acc)
                ELSE IF acc.title = <<>> THEN [acc EXCEPT !.title = t]
                ELSE acc)

parse_project_new(toks) ==
    LET first == toks # <<>> /\ ~starts_with(toks[1], P_plus)
        start == IF first THEN [NoCmd EXCEPT !.tag = "ProjectNew", !.title = toks[1]]
                 ELSE [NoCmd EXCEPT !.tag = "ProjectNew"]
        cmd == project_new_fields(IF first THEN Tail(toks) ELSE toks, start)
    IN IF cmd.title = <<>> THEN Bail(":project.new requires a title", <<>>)
       ELSE Parsed(cmd)

\* parse_ex: toks.remove(0) panics when tokenize returned no token
parse_ex(input) ==
    LET line == trim(input)
        toks == tokenize(line)
    IN IF line = <<>> THEN Bail("empty command", <<>>)
       ELSE IF line = W_config_reload THEN Parsed([NoCmd EXCEPT !.tag = "ConfigReload"])
       ELSE IF toks = <<>> THEN Panics
       ELSE IF Head(toks) = W_new THEN parse_new(Tail(toks))
       ELSE IF Head(toks) = W_status THEN parse_status(Tail(toks))
       ELSE IF Head(toks) = W_open THEN parse_open(Tail(toks))
       ELSE IF Head(toks) = W_project_new THEN parse_project_new(Tail(toks))
       ELSE Bail("unknown command '{cmd}'", <<Head(toks)>>)

(***************************************************************************)
(* Actions and the keymap (actions.rs, keymap.rs).  A token is a string,   *)
(* an action the name of its variant.                                      *)
(***************************************************************************)
Action == {"MoveDown", "MoveUp", "HalfPageDown", "HalfPageUp", "GoTop", "GoBottom",
           "FocusFilter", "Quit", "StatusNext", "StatusPrev", "SetTodo", "SetDoing",
           "SetDone"}
StatusActions == {"StatusNext", "StatusPrev", "SetTodo", "SetDoing", "SetDone"}

T_Ctrl == <<"C","t","r","l","-">>
T_Down == <<"D","o","w","n">>
T_Up == <<"U","p">>
T_Left == <<"L","e","f","t">>
T_Right == <<"R","i","g","h","t">>
T_End == <<"E","n","d">>
T_Esc == <<"E","s","c">>

\* Keymap::lookup
lookup(km, token) == IF token \in DOMAIN km THEN Some(km[token]) ELSE None

\* HashMap::insert
insert(km, token, act) ==
    [t \in (DOMAIN km) \cup {token} |-> IF t = token THEN act ELSE km[t]]

default_keymap ==
    (<<"j">> :> "MoveDown") @@ (T_Down :> "MoveDown")
    @@ (<<"k">> :> "MoveUp") @@ (T_Up :> "MoveUp")
    @@ ((T_Ctrl \o <<"d">>) :> "HalfPageDown") @@ ((T_Ctrl \o <<"u">>) :> "HalfPageUp")
    @@ (<<"G">> :> "GoBottom") @@ (<<"/">> :> "FocusFilter") @@ (<<"q">> :> "Quit")
    @@ (<<"x">> :> "StatusNext") @@ (<<"X">> :> "StatusPrev")
    @@ (<<"1">> :> "SetTodo") @@ (<<"2">> :> "SetDoing") @@ (<<"3">> :> "SetDone")

parse_action_name(s) ==
    CASE s = "move_down" -> Some("MoveDown")
      [] s = "move_up" -> Some("MoveUp")
      [] s = "half_page_down" -> Some("HalfPageDown")
      [] s = "half_page_up" -> Some("HalfPageUp")
      [] s = "go_top" -> Some("GoTop")
      [] s = "go_bottom" -> Some("GoBottom")
      [] s = "focus_filter" -> Some("FocusFilter")
      [] s = "quit" -> Some("Quit")
      [] s = "status_next" -> Some("StatusNext")
      [] s = "status_prev" -> Some("StatusPrev")
      [] s = "set_todo" -> Some("SetTodo")
      [] s = "set_doing" -> Some("SetDoing")
      [] s = "set_done" -> Some("SetDone")
      [] OTHER -> None

\* mlua::Value, as far as the loop tells its variants apart: a string (of
\* valid UTF-8 or not), an integer, anything else
LuaString(text) == [type |-> "String", utf8 |-> TRUE, v |-> text]
LuaBytes == [type |-> "String", utf8 |-> FALSE, v |-> <<>>]
LuaInteger(n) == [type |-> "Integer", utf8 |-> TRUE, v |-> n]
LuaBoolean == [type |-> "Boolean", utf8 |-> TRUE, v |-> <<>>]

\* n.to_string() of a key that is a number
to_string(n) == <<DigitSeq[n + 1]>>

\* for pair in normal_tbl.pairs(): the key becomes the token (s.to_str()? of a
\* string, n.to_string() of a number, any other key ends the turn), then the
\* value the action name (s.to_str()? of a string, any other value ends the
\* turn); a name parse_action_name knows is inserted.  A to_str that fails
\* returns the error from load_keymap_from_file.
RECURSIVE apply_pairs(_, _)
apply_pairs(km, pairs) ==
    IF pairs = <<>> THEN [ok |-> TRUE, km |-> km]
    ELSE LET k == Head(pairs)[1]
             v == Head(pairs)[2]
             act == parse_action_name(v.v)
         IN IF k.type = "String" /\ ~k.utf8 THEN [ok |-> FALSE, km |-> km]
            ELSE IF k.type \notin {"String", "Integer"} THEN apply_pairs(km, Tail(pairs))
            ELSE IF v.type = "String" /\ ~v.utf8 THEN [ok |-> FALSE, km |-> km]
            ELSE IF v.type # "String" THEN apply_pairs(km, Tail(pairs))
            ELSE IF act = None THEN apply_pairs(km, Tail(pairs))
            ELSE apply_pairs(
                     insert(km, IF k.type = "String" THEN k.v ELSE to_string(k.v), act[1]),
                     Tail(pairs))

\* What the user's config.lua can be: absent, failing to load or evaluate,
\* evaluating to something that is no table, or a table whose keymaps.normal
\* holds the pairs.
Config(kind, pairs) == [kind |-> kind, pairs |-> pairs]

load_keymap_from_file(cfg) ==
    IF cfg.kind = "error" THEN [ok |-> FALSE, km |-> default_keymap]
    ELSE IF cfg.kind = "value" THEN [ok |-> TRUE, km |-> default_keymap]
    ELSE apply_pairs(default_keymap, cfg.pairs)

\* a loader that hands on what load_keymap_from_file had built, or nothing
load_keymap_from_user_no_fallback(cfg) ==
    IF cfg.kind = "absent" THEN default_keymap
    ELSE IF load_keymap_from_file(cfg).ok THEN load_keymap_from_file(cfg).km
    ELSE [token \in {} |-> "Quit"]

load_keymap_from_user(cfg) ==
    IF cfg.kind = "absent" THEN default_keymap
    ELSE IF load_keymap_from_file(cfg).ok THEN load_keymap_from_file(cfg).km
    ELSE default_keymap

(***************************************************************************)
(* What both front-ends compute each time round: the listing, the visible  *)
(* tasks, the project keys.                                                *)
(***************************************************************************)
\* a minimum that keeps its first argument
min_first(a, b) == a

min(a, b) == IF a < b THEN a ELSE b
max(a, b) == IF a > b THEN a ELSE b
saturating_sub(a, b) == IF a > b THEN a - b ELSE 0
pop(s) == IF s = <<>> THEN s ELSE SubSeq(s, 1, Len(s) - 1)

\* str::contains
contains(h, n) == \E i \in 1..(Len(h) - Len(n) + 1) : SubSeq(h, i, i + Len(n) - 1) = n

\* format!("[{}] {} {}", t.status, t.title, t.project).to_lowercase()
hay(t) == to_lowercase(<<"[">> \o t.status \o <<"]", " ">> \o t.title \o <<" ">> \o t.project)

matches_filter(s, t) == IF s = <<>> THEN TRUE ELSE contains(hay(t), to_lowercase(s))

\* the task passes the project filter (an Option) and the text filter
passes(t, project, text) ==
    /\ IF project = None THEN TRUE ELSE t.project = project[1]
    /\ matches_filter(text, t)

\* the places in tasks_all of the tasks that pass, in order.  Places count
\* from 1 here and from 0 in the code; a selection counts from 0 in both.
visible_of(tasks_all, project, text) ==
    LET idx == {i \in 1..Len(tasks_all) : passes(tasks_all[i], project, text)}
    IN [k \in 1..Cardinality(idx) |->
           CHOOSE i \in idx : Cardinality({j \in idx : j < i}) = k - 1]

ids_of(tasks_all, visible) == [k \in 1..Len(visible) |-> tasks_all[visible[k]].id]

\* Vec<String>::sort
sort(keys) ==
    LET o == CHOOSE f \in Perms(1..Len(keys)) :
                 \A i, j \in 1..Len(keys) : i < j => str_le(keys[f[i]], keys[f[j]])
    IN [i \in 1..Len(keys) |-> keys[o[i]]]

\* vault.list_projects().unwrap_or_default().into_iter().map(|p| p.key).collect()
\* and sort(): the order list_projects returned does not show after the sort
load_projects(pf) ==
    LET l == CHOOSE l \in list_projects(pf) : TRUE
    IN sort([i \in 1..Len(l) |-> l[i].key])

\* Iterator::position: the first place (from 0) of key, None if absent
position(keys, key) ==
    IF \E i \in 1..Len(keys) : keys[i] = key
    THEN Some((CHOOSE i \in 1..Len(keys) :
                  keys[i] = key /\ \A j \in 1..(i - 1) : keys[j] # key) - 1)
    ELSE None

Tick(n) == IF n < MaxClock THEN n + 1 ELSE n

\* Option<(bool, String)>: the result line
Result(is_error, text, args) == Some([is_error |-> is_error, msg |-> Msg(text, args)])

\* history of a status action: which, on what list, at which selection
Acted(action, visible, sel) == [action |-> action, visible |-> visible, selected |-> sel]
NoAct == Acted("", <<>>, 0)
Pressed(mode, code) == [mode |-> mode, code |-> code]
NoKey == Pressed("", "")

\* a call into the store made by a front-end: the vault it leaves, the clock
\* it read, the call recorded
stored(s, op, id, r, arg) ==
    [s EXCEPT !.files = r.files, !.now = Tick(s.now), !.calls = s.calls + 1,
              !.last = Call(op, id, r.ok, r.path, arg)]

\* the five status actions on the task id: the call and what it returned
status_call(s, act, id) ==
    LET tnow == Tick(s.now)
        cycles == act \in {"StatusNext", "StatusPrev"}
        c == cycle_status(s.files, id, IF act = "StatusNext" THEN 1 ELSE -1, tnow)
        st == CASE act = "SetTodo" -> "Todo"
                [] act = "SetDoing" -> "Doing"
                [] act = "SetDone" -> "Done"
        r == IF cycles THEN c.res ELSE set_status(s.files, id, st, tnow)
    IN [s |-> stored(s, IF cycles THEN "cycle_status" ELSE "set_status", id, r, <<>>),
        ok |-> r.ok, status |-> IF cycles THEN c.status ELSE st, err |-> r.err]

(***************************************************************************)
(* Key events of the terminal (crossterm) and their tokens.                *)
(***************************************************************************)
KeyEvent(code, c, ctrl, shift) == [code |-> code, c |-> c, ctrl |-> ctrl, shift |-> shift]
Char(c) == KeyEvent("Char", c, FALSE, IsUpper(c))
Ctrl(c) == KeyEvent("Char", c, TRUE, FALSE)
Special(code) == KeyEvent(code, "", FALSE, FALSE)
IsChar(k, c) == k.code = "Char" /\ k.c = c
\* KeyEvent.code: the key without its modifiers
KeyCode(k) == IF k.code = "Char" THEN k.c ELSE k.code

\* a normalizer that keeps the case of the character of a control chord
keyevent_to_token_keeping_case(ev) ==
    IF ev.code = "Char" /\ ev.ctrl THEN Some(T_Ctrl \o <<ev.c>>)
    ELSE IF ev.code = "Char" THEN Some(<<ev.c>>)
    ELSE None

keyevent_to_token(ev) ==
    IF ev.code = "Char"
    THEN IF ev.ctrl THEN Some(T_Ctrl \o <<to_ascii_lowercase(ev.c)>>)
         ELSE IF ev.shift /\ ev.c \in Range(LowerSeq) \cup Range(UpperSeq)
              THEN Some(<<to_ascii_uppercase(ev.c)>>)
         ELSE Some(<<ev.c>>)
    ELSE CASE ev.code = "Down" -> Some(T_Down)
           [] ev.code = "Up" -> Some(T_Up)
           [] ev.code = "Left" -> Some(T_Left)
           [] ev.code = "Right" -> Some(T_Right)
           [] ev.code = "End" -> Some(T_End)
           [] ev.code = "Esc" -> Some(T_Esc)
           [] OTHER -> None

InputMode == {"None", "Filter", "EditDue", "EditTitle", "EditTags", "PickProject",
              "NewProject"}

(***************************************************************************)
(* The terminal session (run_tui), handler by handler.  s holds the        *)
(* variables as the handler finds them, the value is what it leaves.       *)
(***************************************************************************)
\* ex mode: Esc, Backspace, a character, anything else
ex_key(s, k) ==
    CASE k.code = "Esc" -> [s EXCEPT !.ex_mode = FALSE, !.ex_input = <<>>]
      [] k.code = "Backspace" -> [s EXCEPT !.ex_input = pop(@)]
      [] k.code = "Char" -> IF ~k.ctrl THEN [s EXCEPT !.ex_input = Append(@, k.c)] ELSE s
      [] OTHER -> s

ex_config_reload(s, cfg) ==
    [s EXCEPT !.keymap = load_keymap_from_user(cfg), !.config = cfg,
              !.ex_result = Result(FALSE, "config reloaded", <<>>)]

ex_new(s, cmd) ==
    LET proj == IF cmd.project = None THEN S_inbox ELSE cmd.project[1]
        r == create_task(s.files,
                         [title |-> cmd.title, project |-> proj, due |-> cmd.due,
                          tags |-> cmd.tags],
                         IdOf(s.issued + 1), Tick(s.now))
        made == [stored(s, "create_task", r.id, r, cmd.title) EXCEPT !.issued = @ + 1]
    IN IF r.ok
       THEN [made EXCEPT !.ex_result =
                Result(FALSE, "created task {id} in project {proj}", <<r.id, proj>>)]
       ELSE [made EXCEPT !.ex_result = Result(TRUE, r.err, <<>>)]

\* a Status command that takes the first visible task for the selection
ex_status_on_first(s, cmd, tasks_all, visible) ==
    LET use_id == IF cmd.id # None THEN cmd.id
                  ELSE IF visible # <<>> THEN Some(tasks_all[visible[1]].id)
                  ELSE None
        act == CASE cmd.set = "Todo" -> "SetTodo"
                 [] cmd.set = "Doing" -> "SetDoing"
                 [] cmd.set = "Done" -> "SetDone"
                 [] cmd.set = "Next" -> "StatusNext"
                 [] cmd.set = "Prev" -> "StatusPrev"
        c == status_call(s, act, use_id[1])
    IN IF use_id = None THEN [s EXCEPT !.ex_result = Result(TRUE, "no task selected", <<>>)]
       ELSE IF ~c.ok THEN [c.s EXCEPT !.ex_result = Result(TRUE, c.err, <<>>)]
       ELSE IF cmd.set \in {"Next", "Prev"}
            THEN [c.s EXCEPT !.ex_result =
                     Result(FALSE, "status -> {}", <<Status_as_str(c.status)>>)]
       ELSE [c.s EXCEPT !.ex_result =
                Result(FALSE, "status set: {}", <<Status_as_str(c.status)>>)]

ex_status(s, cmd, tasks_all, visible) ==
    LET use_id == IF cmd.id # None THEN cmd.id
                  ELSE IF s.selected < Len(visible)
                       THEN Some(tasks_all[visible[s.selected + 1]].id)
                  ELSE None
        act == CASE cmd.set = "Todo" -> "SetTodo"
                 [] cmd.set = "Doing" -> "SetDoing"
                 [] cmd.set = "Done" -> "SetDone"
                 [] cmd.set = "Next" -> "StatusNext"
                 [] cmd.set = "Prev" -> "StatusPrev"
        c == status_call(s, act, use_id[1])
    IN IF use_id = None THEN [s EXCEPT !.ex_result = Result(TRUE, "no task selected", <<>>)]
       ELSE IF ~c.ok THEN [c.s EXCEPT !.ex_result = Result(TRUE, c.err, <<>>)]
       ELSE IF cmd.set \in {"Next", "Prev"}
            THEN [c.s EXCEPT !.ex_result =
                     Result(FALSE, "status -> {}", <<Status_as_str(c.status)>>)]
       ELSE [c.s EXCEPT !.ex_result =
                Result(FALSE, "status set: {}", <<Status_as_str(c.status)>>)]

ex_open_project(s, cmd) ==
    IF cmd.key = <<>>
    THEN [s EXCEPT !.cur_project = None,
                   !.ex_result = Result(FALSE, "opened all projects", <<>>)]
    ELSE [s EXCEPT !.cur_project = Some(cmd.key), !.selected = 0,
                   !.ex_result = Result(FALSE, "opened project {key}", <<cmd.key>>)]

\* create the project, refresh the project keys and jump into it
new_project(s, title, tags) ==
    LET r == create_project(s.projFiles, [title |-> title, tags |-> tags], Tick(s.now))
        made == [s EXCEPT !.projFiles = r.projFiles, !.now = Tick(s.now),
                          !.calls = s.calls + 1,
                          !.last = Call("create_project", r.key, r.ok, None, title)]
    IN IF r.ok
       THEN [made EXCEPT !.projects = load_projects(r.projFiles),
                         !.cur_project = Some(slugify(title)), !.selected = 0,
                         !.ex_result = Result(FALSE, "created project {k}", <<r.key>>)]
       ELSE [made EXCEPT !.ex_result = Result(TRUE, "create_project failed", <<>>)]

\* ex mode, Enter: the buffer is taken and cleared, ex mode is left, and then
\* the line is parsed and run.  A panic of parse_ex ends run_tui there.
ex_enter(s, cfg, tasks_all, visible) ==
    LET line == trim_start_matches(trim(s.ex_input), ":")
        left == [s EXCEPT !.ex_input = <<>>, !.ex_mode = FALSE]
        p == parse_ex(line)
    IN IF p.kind = "panic" THEN [left EXCEPT !.session = "panicked"]
       ELSE IF p.kind = "err"
            THEN [left EXCEPT !.ex_result = Result(TRUE, p.err.text, p.err.args)]
       ELSE CASE p.cmd.tag = "ConfigReload" -> ex_config_reload(left, cfg)
              [] p.cmd.tag = "New" -> ex_new(left, p.cmd)
              [] p.cmd.tag = "Status" -> ex_status(left, p.cmd, tasks_all, visible)
              [] p.cmd.tag = "OpenProject" -> ex_open_project(left, p.cmd)
              [] p.cmd.tag = "ProjectNew" -> new_project(left, p.cmd.title, p.cmd.tags)

\* a Filter mode in which ':' opens the command bar
filter_key_opening_ex(s, k) ==
    IF IsChar(k, ":") THEN [s EXCEPT !.ex_mode = TRUE, !.ex_input = <<>>]
    ELSE CASE k.code \in {"Esc", "Enter"} -> [s EXCEPT !.input_mode = "None"]
           [] k.code = "Backspace" -> [s EXCEPT !.filter = pop(@)]
           [] k.code = "Char" -> IF ~k.ctrl THEN [s EXCEPT !.filter = Append(@, k.c)] ELSE s
           [] OTHER -> s

\* a Filter mode that resolves the key in the keymap before it takes it as text
filter_key_resolving(s, k) ==
    IF keyevent_to_token(k) # None /\ lookup(s.keymap, keyevent_to_token(k)[1]) = Some("Quit")
    THEN [s EXCEPT !.session = "quit"]
    ELSE CASE k.code \in {"Esc", "Enter"} -> [s EXCEPT !.input_mode = "None"]
           [] k.code = "Backspace" -> [s EXCEPT !.filter = pop(@)]
           [] k.code = "Char" -> IF ~k.ctrl THEN [s EXCEPT !.filter = Append(@, k.c)] ELSE s
           [] OTHER -> s

\* InputMode::Filter
filter_key(s, k) ==
    CASE k.code \in {"Esc", "Enter"} -> [s EXCEPT !.input_mode = "None"]
      [] k.code = "Backspace" -> [s EXCEPT !.filter = pop(@)]
      [] k.code = "Char" -> IF ~k.ctrl THEN [s EXCEPT !.filter = Append(@, k.c)] ELSE s
      [] OTHER -> s

\* an Enter that sets the due date in every Edit mode
edit_enter_setting_due(s, tasks_all, visible, renameOk) ==
    LET id == tasks_all[visible[s.selected + 1]].id
        r == set_due(s.files, id, s.input_buf, Tick(s.now))
        saved == [stored(s, "set_due", id, r, <<>>)
                    EXCEPT !.ex_result = IF r.ok THEN Result(FALSE, "saved", <<>>)
                                         ELSE Result(TRUE, r.err, <<>>)]
    IN [(IF s.selected < Len(visible) THEN saved ELSE s)
          EXCEPT !.input_mode = "None", !.input_buf = <<>>]

\* InputMode::EditDue | EditTitle | EditTags, Enter
edit_enter(s, tasks_all, visible, renameOk) ==
    LET id == tasks_all[visible[s.selected + 1]].id
        tnow == Tick(s.now)
        op == CASE s.input_mode = "EditDue" -> "set_due"
                [] s.input_mode = "EditTitle" -> "rename_title"
                [] s.input_mode = "EditTags" -> "set_tags_csv"
        r == CASE s.input_mode = "EditDue" -> set_due(s.files, id, s.input_buf, tnow)
               [] s.input_mode = "EditTitle" ->
                    rename_title(s.files, id, s.input_buf, tnow, renameOk)
               [] s.input_mode = "EditTags" -> set_tags_csv(s.files, id, s.input_buf, tnow)
        saved == [stored(s, op, id, r, IF op = "rename_title" THEN s.input_buf ELSE <<>>)
                    EXCEPT !.last.renamed = (op = "rename_title" /\ renameOk),
                           !.ex_result = IF r.ok THEN Result(FALSE, "saved", <<>>)
                                         ELSE Result(TRUE, r.err, <<>>)]
    IN [(IF s.selected < Len(visible) THEN saved ELSE s)
          EXCEPT !.input_mode = "None", !.input_buf = <<>>]

\* an Edit mode whose Esc leaves the buffer as typed
edit_key_esc_keeps_buffer(s, k, tasks_all, visible, renameOk) ==
    CASE k.code = "Esc" -> [s EXCEPT !.input_mode = "None"]
      [] k.code = "Enter" -> edit_enter(s, tasks_all, visible, renameOk)
      [] k.code = "Backspace" -> [s EXCEPT !.input_buf = pop(@)]
      [] k.code = "Char" -> IF ~k.ctrl THEN [s EXCEPT !.input_buf = Append(@, k.c)] ELSE s
      [] OTHER -> s

edit_key(s, k, tasks_all, visible, renameOk) ==
    CASE k.code = "Esc" -> [s EXCEPT !.input_mode = "None", !.input_buf = <<>>]
      [] k.code = "Enter" -> edit_enter(s, tasks_all, visible, renameOk)
      [] k.code = "Backspace" -> [s EXCEPT !.input_buf = pop(@)]
      [] k.code = "Char" -> IF ~k.ctrl THEN [s EXCEPT !.input_buf = Append(@, k.c)] ELSE s
      [] OTHER -> s

\* InputMode::PickProject
pick_project_key(s, k) ==
    CASE k.code = "Esc" -> [s EXCEPT !.input_mode = "None"]
      [] k.code = "Enter" ->
            IF s.projects = <<>>
            THEN [s EXCEPT !.cur_project = None, !.input_mode = "None"]
            ELSE LET idx == min(s.project_pick_idx, saturating_sub(Len(s.projects), 1))
                 IN [s EXCEPT !.project_pick_idx = idx,
                              !.cur_project = Some(s.projects[idx + 1]),
                              !.selected = 0, !.input_mode = "None"]
      [] k.code = "Up" -> [s EXCEPT !.project_pick_idx = saturating_sub(@, 1)]
      [] k.code = "Down" ->
            IF s.project_pick_idx + 1 < Len(s.projects)
            THEN [s EXCEPT !.project_pick_idx = @ + 1] ELSE s
      [] OTHER -> s

\* InputMode::NewProject
new_project_key(s, k) ==
    CASE k.code = "Esc" -> [s EXCEPT !.input_mode = "None", !.input_buf = <<>>]
      [] k.code = "Enter" ->
            [(IF trim(s.input_buf) # <<>> THEN new_project(s, trim(s.input_buf), <<>>) ELSE s)
               EXCEPT !.input_mode = "None", !.input_buf = <<>>]
      [] k.code = "Backspace" -> [s EXCEPT !.input_buf = pop(@)]
      [] k.code = "Char" -> IF ~k.ctrl THEN [s EXCEPT !.input_buf = Append(@, k.c)] ELSE s
      [] OTHER -> s

\* ']' and '[': the project after (step 1) or before (step -1) the current one
\* a cycle that stops at the ends of the list
cycle_project_no_wrap(s, step) ==
    LET n == Len(s.projects)
        at == IF s.cur_project = None THEN None ELSE position(s.projects, s.cur_project[1])
        idx == IF at = None THEN 0
               ELSE IF step = 1 THEN min(at[1] + 1, n - 1)
               ELSE IF at[1] = 0 THEN 0 ELSE at[1] - 1
    IN IF s.projects = <<>> THEN [s EXCEPT !.cur_project = None]
       ELSE [s EXCEPT !.cur_project = Some(s.projects[idx + 1]), !.selected = 0]

cycle_project(s, step) ==
    LET n == Len(s.projects)
        at == IF s.cur_project = None THEN None ELSE position(s.projects, s.cur_project[1])
        idx == IF at = None THEN 0
               ELSE IF step = 1 THEN (at[1] + 1) % n
               ELSE IF at[1] = 0 THEN n - 1 ELSE at[1] - 1
    IN IF s.projects = <<>> THEN [s EXCEPT !.cur_project = None]
       ELSE [s EXCEPT !.cur_project = Some(s.projects[idx + 1]), !.selected = 0]

\* the match on the action the key resolved to
do_action(s, act, tasks_all, visible) ==
    LET len == Len(visible)
        jump == max(max(len, 1) \div 2, 1)
        c == status_call(s, act, tasks_all[visible[s.selected + 1]].id)
        a == [s EXCEPT !.acted = Acted(act, ids_of(tasks_all, visible), s.selected)]
    IN CASE act = "MoveDown" ->
              IF len > 0 /\ s.selected + 1 < len THEN [a EXCEPT !.selected = @ + 1] ELSE a
         [] act = "MoveUp" -> IF s.selected > 0 THEN [a EXCEPT !.selected = @ - 1] ELSE a
         [] act = "HalfPageDown" ->
              [a EXCEPT !.selected = min(@ + jump, saturating_sub(len, 1))]
         [] act = "HalfPageUp" -> [a EXCEPT !.selected = saturating_sub(@, jump)]
         [] act = "GoTop" -> [a EXCEPT !.selected = 0]
         [] act = "GoBottom" -> IF len > 0 THEN [a EXCEPT !.selected = len - 1] ELSE a
         [] act = "FocusFilter" -> [a EXCEPT !.input_mode = "Filter"]
         [] act = "Quit" -> [a EXCEPT !.session = "quit"]
         [] act \in StatusActions ->
              IF s.selected < len
              THEN [c.s EXCEPT
                      !.ex_result =
                          IF c.ok THEN Result(FALSE, "status -> {}", <<Status_as_str(c.status)>>)
                          ELSE Result(TRUE, c.err, <<>>),
                      !.acted = Acted(act, ids_of(tasks_all, visible), s.selected)]
              ELSE s

\* the hotkeys tried when the key resolved to no action
edit_hotkey(s, k) ==
    IF IsChar(k, "D") THEN [s EXCEPT !.input_mode = "EditDue", !.input_buf = <<>>]
    ELSE IF IsChar(k, "R") THEN [s EXCEPT !.input_mode = "EditTitle", !.input_buf = <<>>]
    ELSE IF IsChar(k, "T") THEN [s EXCEPT !.input_mode = "EditTags", !.input_buf = <<>>]
    ELSE IF IsChar(k, "/") THEN [s EXCEPT !.input_mode = "Filter"]
    ELSE s

\* InputMode::None outside ex mode: ':', the project keys, the gg sequence,
\* the keymap, the edit hotkeys
browse_key(s, k, tasks_all, visible) ==
    LET g == IsChar(k, "g")
        second == g /\ s.last_key = Some("g")
        token == keyevent_to_token(k)
        action == IF g THEN (IF second THEN Some("GoTop") ELSE None)
                  ELSE IF token # None THEN lookup(s.keymap, token[1])
                  ELSE None
        keyed == [s EXCEPT !.last_key = IF g /\ ~second THEN Some("g") ELSE None]
    IN IF IsChar(k, ":") THEN [s EXCEPT !.ex_mode = TRUE, !.ex_input = <<>>]
       ELSE IF IsChar(k, "O")
            THEN [s EXCEPT !.projects = load_projects(s.projFiles),
                           !.project_pick_idx = 0, !.input_mode = "PickProject"]
       ELSE IF IsChar(k, "]") THEN cycle_project(s, 1)
       ELSE IF IsChar(k, "[") THEN cycle_project(s, -1)
       ELSE IF IsChar(k, "P") THEN [s EXCEPT !.input_mode = "NewProject", !.input_buf = <<>>]
       ELSE IF action # None THEN do_action(keyed, action[1], tasks_all, visible)
       ELSE edit_hotkey(keyed, k)

\* the key event of one turn of the loop: ex mode first, then the input
\* modes, then Browsing
key_event(s, k, cfg, tasks_all, visible, renameOk) ==
    IF s.ex_mode
    THEN (IF k.code = "Enter" THEN ex_enter(s, cfg, tasks_all, visible) ELSE ex_key(s, k))
    ELSE CASE s.input_mode = "Filter" -> filter_key(s, k)
           [] s.input_mode \in {"EditDue", "EditTitle", "EditTags"} ->
                 edit_key(s, k, tasks_all, visible, renameOk)
           [] s.input_mode = "PickProject" -> pick_project_key(s, k)
           [] s.input_mode = "NewProject" -> new_project_key(s, k)
           [] s.input_mode = "None" -> browse_key(s, k, tasks_all, visible)

(***************************************************************************)
(* The graphical front-end (tm-gui): App::update, one call per frame.  g   *)
(* holds the variables as the frame finds them.                            *)
(***************************************************************************)
KeyPress(k, ctrl, shift) == [key |-> k, ctrl |-> ctrl, shift |-> shift]
NoKeyPress == KeyPress("", FALSE, FALSE)

RECURSIVE to_uppercase(_)
to_uppercase(s) ==
    IF s = <<>> THEN <<>> ELSE <<to_ascii_uppercase(Head(s))>> \o to_uppercase(Tail(s))

egui_key_to_token(ev) ==
    LET base == CASE ev.key = "ArrowDown" -> Some(T_Down)
                  [] ev.key = "ArrowUp" -> Some(T_Up)
                  [] ev.key = "End" -> Some(T_End)
                  [] ev.key = "G" -> Some(<<"g">>)
                  [] ev.key = "J" -> Some(<<"j">>)
                  [] ev.key = "K" -> Some(<<"k">>)
                  [] ev.key = "D" -> Some(<<"d">>)
                  [] ev.key = "U" -> Some(<<"u">>)
                  [] ev.key = "X" -> Some(<<"x">>)
                  [] ev.key = "Num1" -> Some(<<"1">>)
                  [] ev.key = "Num2" -> Some(<<"2">>)
                  [] ev.key = "Num3" -> Some(<<"3">>)
                  [] ev.key = "Slash" -> Some(<<"/">>)
                  [] ev.key = "Q" -> Some(<<"q">>)
                  [] OTHER -> None
    IN IF base = None THEN None
       ELSE IF ev.ctrl THEN Some(T_Ctrl \o base[1])
       ELSE IF ev.shift /\ Len(base[1]) = 1 THEN Some(to_uppercase(base[1]))
       ELSE base

\* the text a key press puts into the focused TextEdit::singleline
key_text(ev) ==
    IF ev.ctrl THEN None
    ELSE CASE ev.key \in Range(UpperSeq) ->
                Some(IF ev.shift THEN ev.key ELSE to_ascii_lowercase(ev.key))
           [] ev.key = "Num1" -> Some("1")
           [] ev.key = "Num2" -> Some("2")
           [] ev.key = "Num3" -> Some("3")
           [] ev.key = "Slash" -> Some("/")
           [] ev.key = "Space" -> Some(SP)
           [] OTHER -> None

\* a TextEdit::singleline holding text, given the key press, when it has focus
text_edit(text, ev, focused) ==
    IF ~focused THEN text
    ELSE IF key_text(ev) # None THEN Append(text, key_text(ev)[1])
    ELSE IF ev.key = "Backspace" THEN pop(text)
    ELSE text

\* what the frame is given: a key press, or a click on a widget (with the
\* row, the project or the status clicked), or nothing
Input(ev, click, arg) == [ev |-> ev, click |-> click, arg |-> arg]

\* "support gg and G", then the first key press of the frame through the keymap
gui_action(a, ev) ==
    IF ev.key = "G"
    THEN IF ev.shift THEN Some("GoBottom")
         ELSE IF a.last_key_g THEN Some("GoTop")
         ELSE None
    ELSE IF ev.key # "" /\ egui_key_to_token(ev) # None
         THEN lookup(a.keymap, egui_key_to_token(ev)[1])
    ELSE None

gui_last_key_g(a, ev) ==
    IF ev.key = "G" THEN (IF ev.shift THEN a.last_key_g ELSE ~a.last_key_g) ELSE FALSE

\* if let Some(act) = action { match act { ... } }: tasks is the whole listing
gui_do_action(g, act, tasks) ==
    LET len == Len(tasks)
        jump == max(max(len, 1) \div 2, 1)
        sel == g.app.selected
        c == status_call(g, act, tasks[sel + 1].id)
        shown == visible_of(tasks, g.app.project_filter, g.app.filter)
    IN CASE act = "MoveDown" -> IF sel + 1 < len THEN [g EXCEPT !.app.selected = @ + 1] ELSE g
         [] act = "MoveUp" -> IF sel > 0 THEN [g EXCEPT !.app.selected = @ - 1] ELSE g
         [] act = "HalfPageDown" ->
              [g EXCEPT !.app.selected = min(@ + jump, saturating_sub(len, 1))]
         [] act = "HalfPageUp" -> [g EXCEPT !.app.selected = saturating_sub(@, jump)]
         [] act = "GoTop" -> [g EXCEPT !.app.selected = 0]
         [] act = "GoBottom" -> IF len > 0 THEN [g EXCEPT !.app.selected = len - 1] ELSE g
         [] act \in {"FocusFilter", "Quit"} -> g
         [] act \in StatusActions ->
              IF sel < len
              THEN [c.s EXCEPT !.acted = Acted(act, ids_of(tasks, shown), sel)]
              ELSE g

\* the top panel: the project dropdown, the "New" field and its Create
\* button, the "Filter" field
gui_top(g, in, act, enterKeepsFocus) ==
    LET a == g.app
        typed == text_edit(a.new_project_title, in.ev, g.focus = "new_proj")
        wanted == a.focus_new_project \/ (in.ev.key = "P" /\ in.ev.shift)
        enter_on_field == in.ev.key = "Enter" /\ g.focus = "new_proj" /\ enterKeepsFocus
        create == in.click = "create" \/ enter_on_field
        title == trim(typed)
        r == create_project(g.projFiles, [title |-> title, tags |-> <<>>], Tick(g.now))
        made == [g EXCEPT !.projFiles = r.projFiles, !.now = Tick(g.now),
                          !.calls = g.calls + 1,
                          !.last = Call("create_project", r.key, r.ok, None, title),
                          !.app.project_filter = Some(slugify(title)),
                          !.app.new_project_title = <<>>]
        g1 == IF create /\ title # <<>> THEN made
              ELSE [g EXCEPT !.app.new_project_title = typed]
        picked == IF in.click = "project" THEN in.arg ELSE g1.app.project_filter
    IN [g1 EXCEPT !.app.project_filter = picked,
                  !.app.focus_new_project = FALSE,
                  !.app.filter = text_edit(a.filter, in.ev, g.focus = "filter"),
                  !.focus = IF act = Some("FocusFilter") \/ in.click = "filter" THEN "filter"
                            ELSE IF wanted \/ in.click = "new_proj" THEN "new_proj"
                            ELSE IF in.click # "" THEN "none"
                            ELSE IF in.ev.key = "Enter" /\ ~enterKeepsFocus THEN "none"
                            ELSE g.focus]

\* the task list: a click on a row that is shown selects it
gui_left(g, in, tasks) ==
    IF in.click = "task" THEN [g EXCEPT !.app.selected = in.arg] ELSE g

\* the detail panel: its three buttons set the status of the task it shows
gui_central(g, in, tasks) ==
    LET idx == min(g.app.selected, saturating_sub(Len(tasks), 1))
        id == tasks[idx + 1].id
        r == set_status(g.files, id, in.arg, Tick(g.now))
    IN IF in.click = "status" /\ tasks # <<>> THEN stored(g, "set_status", id, r, <<>>)
       ELSE g

\* the key handling at the head of App::update
gui_keys(g, ev, tasks) ==
    LET act == gui_action(g.app, ev)
        keyed == [g EXCEPT !.app.last_key_g = gui_last_key_g(g.app, ev)]
    IN IF act = None THEN keyed ELSE gui_do_action(keyed, act[1], tasks)

(***************************************************************************)
(* The inputs of the front-ends: the lines typed into the command bar, the *)
(* texts typed into the other buffers, the config files found.             *)
(***************************************************************************)
Prefixes(texts) == UNION {{SubSeq(t, 1, n) : n \in 0..Len(t)} : t \in texts}

ExLines ==
    {<<QUOTE>>, <<QUOTE, QUOTE>>, W_new \o <<SP, "a">>, W_open, <<"z">>}
InputTexts == {<<"b">>, <<SP>>}
FilterTexts == {<<"a">>}

NoConfig == Config("absent", <<>>)
\* a table that overrides D, adds z, and has four entries to leave out: an
\* unknown action name, a key that is no string, a value that is no string
TableConfig ==
    Config("table", << <<LuaString(<<"z">>), LuaString("status_next")>>,
                       <<LuaString(<<"D">>), LuaString("move_down")>>,
                       <<LuaString(<<"q">>), LuaString("nope")>>,
                       <<LuaBoolean, LuaString("quit")>>,
                       <<LuaString(<<"k">>), LuaInteger(1)>> >>)
\* tables with a number for a key, and with a string that is not UTF-8 for a
\* key or for a value
NumberKeyConfig ==
    Config("table", << <<LuaInteger(9), LuaString("go_top")>> >>)
BytesKeyConfig ==
    Config("table", << <<LuaString(<<"z">>), LuaString("status_next")>>,
                       <<LuaBytes, LuaString("quit")>> >>)
BytesValueConfig ==
    Config("table", << <<LuaString(<<"j">>), LuaBytes>>,
                       <<LuaString(<<"z">>), LuaString("status_prev")>> >>)
\* the files the sessions with a vault to work on start from
SessionConfigs == {NoConfig, TableConfig}
Configs ==
    SessionConfigs
    \cup {Config("error", <<>>), Config("value", <<>>), NumberKeyConfig, BytesKeyConfig,
          BytesValueConfig}

TuiChars == {"j", "k", "g", "G", "x", "X", "1", "2", "3", "q", "/", ":", "O", "]", "[",
             "P", "D", "R", "T", "z"}
TextChars == UNION {Range(t) : t \in ExLines \cup InputTexts \cup FilterTexts}
TuiKeys ==
    {Char(c) : c \in TuiChars \cup TextChars}
    \cup {Ctrl("d"), Ctrl("u"), KeyEvent("Char", "g", FALSE, TRUE)}
    \cup {Special(code) : code \in {"Enter", "Esc", "Backspace", "Up", "Down", "Tab"}}

GuiKeys ==
    {KeyPress(k, FALSE, FALSE) :
        k \in {"J", "K", "G", "X", "Num1", "Num2", "Num3", "Slash", "Q", "A", "B", "Space",
               "Backspace", "Enter", "ArrowDown", "ArrowUp", "End"}}
    \cup {KeyPress(k, FALSE, TRUE) : k \in {"G", "X", "P"}}
    \cup {KeyPress(k, TRUE, FALSE) : k \in {"D", "U"}}

(***************************************************************************)
(* The state after construction.                                           *)
(***************************************************************************)
InitVault ==
    /\ \E start \in Starts :
       LET legacy == start[1]
           corrupt == start[2]
       IN
          /\ files = Vault(legacy, corrupt)
          /\ projFiles = Projects(legacy, corrupt)
    /\ now = 0
    /\ issued = 0
    /\ calls = 0
    /\ last = NoCall
    /\ track = NoTrack
    /\ listed = NoListing
    /\ events = 0
    /\ pressed = NoKey
    /\ acted = NoAct

\* run_tui, up to its loop
InitTuiVars(cfg) ==
    /\ session = "running"
    /\ keymap = load_keymap_from_user(cfg)
    /\ selected = 0
    /\ last_key = None
    /\ filter = <<>>
    /\ input_mode = "None"
    /\ input_buf = <<>>
    /\ ex_mode = FALSE
    /\ ex_input = <<>>
    /\ ex_result = None
    /\ projects = load_projects(projFiles)
    /\ cur_project = None
    /\ project_pick_idx = 0

\* run_gui
InitApp(cfg) ==
    /\ app = [selected |-> 0, filter |-> <<>>, last_key_g |-> FALSE, project_filter |-> None,
              new_project_title |-> <<>>, focus_new_project |-> FALSE,
              keymap |-> load_keymap_from_user(cfg)]
    /\ focus = "none"

Init ==
    InitVault /\ config = NoConfig /\ inflight = NoFlights /\ InitTuiVars(NoConfig)
    /\ InitApp(NoConfig)

\* the clock read by a call: later than the time the call before read, up to
\* the last instant of the model
Clock(tnow) == tnow = IF now < MaxClock THEN now + 1 ELSE now
Called == calls < MaxCalls /\ calls' = calls + 1

\* main.rs, Cmd::Add
CreateTask ==
    \E t \in NewTasks, tnow \in 1..MaxClock :
        /\ Clock(tnow)
        /\ Called
        /\ issued < MaxIssued
        /\ LET r == create_task(files, t, IdOf(issued + 1), tnow)
           IN /\ files' = r.files
              /\ last' = Call("create_task", r.id, r.ok, r.path, t.title)
        /\ issued' = issued + 1
        /\ now' = tnow
        /\ track' = NoTrack
        /\ listed' = NoListing
        /\ UNCHANGED projFiles
        /\ UNCHANGED frontVars

SetStatus ==
    \E id \in Ids, status \in Status, tnow \in 1..MaxClock :
        /\ Clock(tnow)
        /\ Called
        /\ LET r == set_status(files, id, status, tnow)
           IN /\ files' = r.files
              /\ last' = Call("set_status", id, r.ok, r.path, <<>>)
        /\ now' = tnow
        /\ track' = NoTrack
        /\ listed' = NoListing
        /\ UNCHANGED <<projFiles, issued>>
        /\ UNCHANGED frontVars

\* the status stored for id, None when no file decodes to id
StoredStatus(fs, id) ==
    IF find_task_file_by_id(fs, id) = None THEN None
    ELSE Some(fs[find_task_file_by_id(fs, id)[1]].fm.status)

CycleStatus ==
    \E id \in Ids, direction \in Directions, tnow \in 1..MaxClock :
        /\ Clock(tnow)
        /\ Called
        /\ LET c == cycle_status(files, id, direction, tnow)
           IN /\ files' = c.res.files
              /\ last' = Call("cycle_status", id, c.res.ok, c.res.path, <<>>)
              /\ track' = IF ~c.res.ok THEN NoTrack
                          ELSE IF track.id = id /\ Len(track.dirs) < 3
                               THEN [track EXCEPT !.dirs = Append(@, direction)]
                          ELSE [id |-> id, from |-> StoredStatus(files, id)[1],
                                dirs |-> <<direction>>]
        /\ now' = tnow
        /\ listed' = NoListing
        /\ UNCHANGED <<projFiles, issued>>
        /\ UNCHANGED frontVars

SetDue ==
    \E id \in Ids, due \in DueTexts, tnow \in 1..MaxClock :
        /\ Clock(tnow)
        /\ Called
        /\ LET r == set_due(files, id, due, tnow)
           IN /\ files' = r.files
              /\ last' = Call("set_due", id, r.ok, r.path, <<>>)
        /\ now' = tnow
        /\ track' = NoTrack
        /\ listed' = NoListing
        /\ UNCHANGED <<projFiles, issued>>
        /\ UNCHANGED frontVars

SetTagsCsv ==
    \E id \in Ids, csv \in TagTexts, tnow \in 1..MaxClock :
        /\ Clock(tnow)
        /\ Called
        /\ LET r == set_tags_csv(files, id, csv, tnow)
           IN /\ files' = r.files
              /\ last' = Call("set_tags_csv", id, r.ok, r.path, <<>>)
        /\ now' = tnow
        /\ track' = NoTrack
        /\ listed' = NoListing
        /\ UNCHANGED <<projFiles, issued>>
        /\ UNCHANGED frontVars

RenameTitle ==
    \E id \in Ids, title \in Titles, tnow \in 1..MaxClock, renameOk \in BOOLEAN :
        /\ Clock(tnow)
        /\ Called
        /\ LET r == rename_title(files, id, title, tnow, renameOk)
           IN /\ files' = r.files
              /\ last' = [Call("rename_title", id, r.ok, r.path, title)
                             EXCEPT !.renamed = renameOk]
        /\ now' = tnow
        /\ track' = NoTrack
        /\ listed' = NoListing
        /\ UNCHANGED <<projFiles, issued>>
        /\ UNCHANGED frontVars

CreateProject ==
    \E p \in NewProjects, tnow \in 1..MaxClock :
        /\ Clock(tnow)
        /\ Called
        /\ LET r == create_project(projFiles, p, tnow)
           IN /\ projFiles' = r.projFiles
              /\ last' = Call("create_project", r.key, r.ok, None, p.title)
        /\ now' = tnow
        /\ track' = NoTrack
        /\ listed' = NoListing
        /\ UNCHANGED <<files, issued>>
        /\ UNCHANGED frontVars

\* main.rs, Cmd::Ls: list_tasks(project.as_deref()).  The parameter is named
\* _project in list_tasks and is not read there, so the listing is that of
\* list_tasks(None) whatever --project says.
ListTasks ==
    \E project \in ProjectFilters, tasks \in list_tasks(files) :
        /\ Called
        /\ listed' = [op |-> "list_tasks", project |-> project, tasks |-> tasks,
                      projects |-> <<>>]
        /\ last' = NoCall
        /\ track' = NoTrack
        /\ UNCHANGED <<files, projFiles, now, issued>>
        /\ UNCHANGED frontVars

ListProjects ==
    \E listing \in list_projects(projFiles) :
        /\ Called
        /\ listed' = [op |-> "list_projects", project |-> None, tasks |-> <<>>,
                      projects |-> listing]
        /\ last' = NoCall
        /\ track' = NoTrack
        /\ UNCHANGED <<files, projFiles, now, issued>>
        /\ UNCHANGED frontVars

Next ==
    \/ CreateTask
    \/ SetStatus
    \/ CycleStatus
    \/ SetDue
    \/ SetTagsCsv
    \/ RenameTitle
    \/ CreateProject
    \/ ListTasks
    \/ ListProjects

Spec == Init /\ [][Next]_vars

(***************************************************************************)
(* The terminal session, one action per handler of its loop.               *)
(***************************************************************************)
InitTui ==
    /\ InitVault
    /\ \E cfg \in SessionConfigs : config = cfg /\ InitTuiVars(cfg)
    /\ inflight = NoFlights
    /\ InitApp(NoConfig)

\* the head of the loop: selected is brought back into the visible list
clamp(sel, len) == IF len = 0 THEN 0 ELSE IF sel >= len THEN len - 1 ELSE sel

TuiState ==
    [files |-> files, projFiles |-> projFiles, now |-> now, issued |-> issued,
     calls |-> calls, last |-> NoCall, acted |-> NoAct, config |-> config,
     session |-> session, keymap |-> keymap, selected |-> selected, last_key |-> last_key,
     filter |-> filter, input_mode |-> input_mode, input_buf |-> input_buf,
     ex_mode |-> ex_mode, ex_input |-> ex_input, ex_result |-> ex_result,
     projects |-> projects, cur_project |-> cur_project,
     project_pick_idx |-> project_pick_idx]

\* acted keeps what the turn found: the visible list and the selection in it
Looped(tasks_all) ==
    LET visible == visible_of(tasks_all, cur_project, filter)
        sel == clamp(selected, Len(visible))
    IN [TuiState EXCEPT !.selected = sel,
                        !.acted = Acted("", ids_of(tasks_all, visible), sel)]

\* what the handler leaves becomes the state, within the bounds of the model
IsEdit(mode, k) ==
    /\ mode \in {"Ex", "Filter", "EditDue", "EditTitle", "EditTags", "NewProject"}
    /\ k.code = "Backspace" \/ (k.code = "Char" /\ ~k.ctrl)

\* the key is within the budget of the session
Budgeted(mode, k) == IF IsEdit(mode, k) THEN TRUE ELSE events < MaxEvents

\* lines: the lines the user of the session types into the command bar;
\* texts: the texts typed into the buffer of an input mode; filters: the
\* texts typed into the filter
TuiLeavesIn(t, mode, k, lines, texts, filters) ==
    /\ Budgeted(mode, k)
    /\ events' = IF IsEdit(mode, k) THEN events ELSE events + 1
    /\ t.calls <= MaxCalls
    /\ t.issued <= MaxIssued
    /\ t.ex_input \in Prefixes(lines)
    /\ t.input_buf \in Prefixes(texts)
    /\ t.filter \in Prefixes(filters)
    /\ files' = t.files
    /\ projFiles' = t.projFiles
    /\ now' = t.now
    /\ issued' = t.issued
    /\ calls' = t.calls
    /\ last' = t.last
    /\ acted' = t.acted
    /\ config' = t.config
    /\ inflight' = inflight
    /\ session' = t.session
    /\ keymap' = t.keymap
    /\ selected' = t.selected
    /\ last_key' = t.last_key
    /\ filter' = t.filter
    /\ input_mode' = t.input_mode
    /\ input_buf' = t.input_buf
    /\ ex_mode' = t.ex_mode
    /\ ex_input' = t.ex_input
    /\ ex_result' = t.ex_result
    /\ projects' = t.projects
    /\ cur_project' = t.cur_project
    /\ project_pick_idx' = t.project_pick_idx
    /\ pressed' = Pressed(mode, KeyCode(k))
    /\ track' = NoTrack
    /\ listed' = NoListing
    /\ UNCHANGED guiVars

TuiLeavesTyped(t, mode, k, lines) ==
    TuiLeavesIn(t, mode, k, lines, InputTexts, FilterTexts)

TuiLeaves(t, mode, k) == TuiLeavesTyped(t, mode, k, ExLines)

\* a turn of the loop in which event::poll times out
TuiIdle ==
    /\ session = "running"
    /\ \E tasks_all \in list_tasks(files) :
          selected' = clamp(selected, Len(visible_of(tasks_all, cur_project, filter)))
    /\ UNCHANGED <<storeVars, histVars, guiVars, events, pressed, acted, config, inflight,
                   session, keymap, last_key, filter, input_mode, input_buf, ex_mode, ex_input,
                   ex_result, projects, cur_project, project_pick_idx>>

TuiExKey ==
    /\ session = "running"
    /\ ex_mode
    /\ \E tasks_all \in list_tasks(files) :
          \E s \in {Looped(tasks_all)} :
              \E k \in TuiKeys :
                  /\ k.code # "Enter"
                  /\ Budgeted("Ex", k)
                  /\ \E t \in {ex_key(s, k)} : TuiLeaves(t, "Ex", k)

TuiExEnter ==
    /\ session = "running"
    /\ ex_mode
    /\ Budgeted("Ex", Special("Enter"))
    /\ \E tasks_all \in list_tasks(files) :
          \E s \in {Looped(tasks_all)}, visible \in {visible_of(tasks_all, cur_project, filter)} :
              \E cfg \in Configs :
                  \E t \in {ex_enter(s, cfg, tasks_all, visible)} :
                      TuiLeaves(t, "Ex", Special("Enter"))

TuiFilterKey ==
    /\ session = "running"
    /\ ~ex_mode
    /\ input_mode = "Filter"
    /\ \E tasks_all \in list_tasks(files) :
          \E s \in {Looped(tasks_all)} :
              \E k \in TuiKeys :
                  /\ Budgeted("Filter", k)
                  /\ \E t \in {filter_key(s, k)} : TuiLeaves(t, "Filter", k)

TuiEditKey ==
    /\ session = "running"
    /\ ~ex_mode
    /\ input_mode \in {"EditDue", "EditTitle", "EditTags"}
    /\ \E tasks_all \in list_tasks(files) :
          \E s \in {Looped(tasks_all)}, visible \in {visible_of(tasks_all, cur_project, filter)} :
              \E k \in TuiKeys, renameOk \in BOOLEAN :
                  /\ Budgeted(input_mode, k)
                  /\ \E t \in {edit_key(s, k, tasks_all, visible, renameOk)} :
                         TuiLeaves(t, input_mode, k)

TuiPickProjectKey ==
    /\ session = "running"
    /\ ~ex_mode
    /\ input_mode = "PickProject"
    /\ events < MaxEvents
    /\ \E tasks_all \in list_tasks(files) :
          \E s \in {Looped(tasks_all)} :
              \E k \in TuiKeys :
                  \E t \in {pick_project_key(s, k)} : TuiLeaves(t, "PickProject", k)

TuiNewProjectKey ==
    /\ session = "running"
    /\ ~ex_mode
    /\ input_mode = "NewProject"
    /\ \E tasks_all \in list_tasks(files) :
          \E s \in {Looped(tasks_all)} :
              \E k \in TuiKeys :
                  /\ Budgeted("NewProject", k)
                  /\ \E t \in {new_project_key(s, k)} : TuiLeaves(t, "NewProject", k)

TuiBrowseKey ==
    /\ session = "running"
    /\ ~ex_mode
    /\ input_mode = "None"
    /\ events < MaxEvents
    /\ \E tasks_all \in list_tasks(files) :
          \E s \in {Looped(tasks_all)}, visible \in {visible_of(tasks_all, cur_project, filter)} :
              \E k \in TuiKeys :
                  \E t \in {browse_key(s, k, tasks_all, visible)} : TuiLeaves(t, "None", k)

NextTui ==
    \/ TuiIdle
    \/ TuiExKey
    \/ TuiExEnter
    \/ TuiFilterKey
    \/ TuiEditKey
    \/ TuiPickProjectKey
    \/ TuiNewProjectKey
    \/ TuiBrowseKey

SpecTui == InitTui /\ [][NextTui]_vars

(***************************************************************************)
(* The terminal session browsing a vault of several tasks: the keys of the *)
(* Browsing mode and of the two modes that narrow the visible list.        *)
(***************************************************************************)
\* the i-th task of such a vault, each updated one tick after the one before
ListedId(i) == <<"t", DigitSeq[i + 1]>>
ListedFile(i) ==
    [LegacyFile(S_todo, <<>>) EXCEPT !.fm.id = ListedId(i), !.fm.updated = Some(i - 1)]
ManyTasks(n) ==
    [p \in {TaskPath(0, <<"l">>, ListedId(i)) : i \in 1..n} |->
        ListedFile(CHOOSE i \in 1..n : ListedId(i) = p.id)]

InitNav ==
    /\ \E n \in 0..MaxTasks : files = ManyTasks(n)
    /\ projFiles = [k \in {<<"h">>} |-> LegacyProject]
    /\ now = MaxTasks - 1
    /\ issued = 0
    /\ calls = 0
    /\ last = NoCall
    /\ track = NoTrack
    /\ listed = NoListing
    /\ events = 0
    /\ pressed = NoKey
    /\ acted = NoAct
    /\ config = NoConfig
    /\ inflight = NoFlights
    /\ InitTuiVars(NoConfig)
    /\ InitApp(NoConfig)

NextNav ==
    \/ TuiIdle
    \/ TuiBrowseKey
    \/ TuiFilterKey
    \/ TuiPickProjectKey

SpecNav == InitNav /\ [][NextNav]_vars

(***************************************************************************)
(* Sessions over vaults of no, one and three projects.                     *)
(***************************************************************************)
CycleKeys == {<<"h">>, <<"i">>, <<"p">>}
ProjectFile(k) == [LegacyProject EXCEPT !.fm.key = k]

InitCycle ==
    /\ files = ManyTasks(1)
    /\ \E keys \in {{}, {<<"h">>}, CycleKeys} : projFiles = [k \in keys |-> ProjectFile(k)]
    /\ now = MaxTasks - 1
    /\ issued = 0
    /\ calls = 0
    /\ last = NoCall
    /\ track = NoTrack
    /\ listed = NoListing
    /\ events = 0
    /\ pressed = NoKey
    /\ acted = NoAct
    /\ config = NoConfig
    /\ inflight = NoFlights
    /\ InitTuiVars(NoConfig)
    /\ InitApp(NoConfig)

NextCycle ==
    \/ TuiIdle
    \/ TuiBrowseKey
    \/ TuiPickProjectKey

SpecCycle == InitCycle /\ [][NextCycle]_vars

(***************************************************************************)
(* Sessions over a vault of one task whose user edits the configuration    *)
(* file and has it loaded again: run_tui loads the file found at start,    *)
(* :config.reload the file found then.                                     *)
(***************************************************************************)
ReloadKeys == {Char(c) : c \in Range(W_config_reload)}

InitKeymap ==
    /\ files = ManyTasks(1)
    /\ projFiles = [k \in {<<"h">>} |-> LegacyProject]
    /\ now = MaxTasks - 1
    /\ issued = 0
    /\ calls = 0
    /\ last = NoCall
    /\ track = NoTrack
    /\ listed = NoListing
    /\ events = 0
    /\ pressed = NoKey
    /\ acted = NoAct
    /\ \E cfg \in Configs : config = cfg /\ InitTuiVars(cfg)
    /\ inflight = NoFlights
    /\ InitApp(NoConfig)

\* a character of the reload line typed into the command bar
TuiReloadKey ==
    /\ session = "running"
    /\ ex_mode
    /\ \E tasks_all \in list_tasks(files) :
          \E s \in {Looped(tasks_all)} :
              \E k \in ReloadKeys :
                  \E t \in {ex_key(s, k)} : TuiLeavesTyped(t, "Ex", k, {W_config_reload})

NextKeymap ==
    \/ TuiIdle
    \/ TuiBrowseKey
    \/ TuiReloadKey
    \/ TuiExEnter

SpecKeymap == InitKeymap /\ [][NextKeymap]_vars

(***************************************************************************)
(* The graphical front-end, one action per kind of frame.                  *)
(***************************************************************************)
InitGui ==
    /\ InitVault
    /\ InitTuiVars(NoConfig)
    /\ \E cfg \in SessionConfigs : config = cfg /\ InitApp(cfg)
    /\ inflight = NoFlights

GuiState ==
    [files |-> files, projFiles |-> projFiles, now |-> now, issued |-> issued,
     calls |-> calls, last |-> NoCall, acted |-> NoAct, app |-> app, focus |-> focus]

\* code: what kind of input the frame had; key: what the history keeps of it
GuiLeavesAs(g, code, key) ==
    /\ IF code \in {"", "Edit"} THEN events' = events
       ELSE events < MaxEvents /\ events' = events + 1
    /\ g.calls <= MaxCalls
    /\ g.app.filter \in Prefixes(FilterTexts)
    /\ g.app.new_project_title \in Prefixes(InputTexts)
    /\ files' = g.files
    /\ projFiles' = g.projFiles
    /\ now' = g.now
    /\ calls' = g.calls
    /\ last' = g.last
    /\ acted' = g.acted
    /\ app' = g.app
    /\ focus' = g.focus
    /\ pressed' = Pressed("Gui", key)
    /\ track' = NoTrack
    /\ listed' = NoListing
    /\ UNCHANGED <<issued, tuiVars, config, inflight>>

GuiLeaves(g, code) == GuiLeavesAs(g, code, code)

\* App::update on one input: the key handling, then the panels in the order
\* they are laid out
UpdateAs(in, tasks, enterKeepsFocus, code, key) ==
    \E keyed \in {gui_keys(GuiState, in.ev, tasks)} :
        \E top \in {gui_top(keyed, in, gui_action(app, in.ev), enterKeepsFocus)} :
            \E left \in {gui_left(top, in, tasks)} :
                \E central \in {gui_central(left, in, tasks)} :
                    GuiLeavesAs(central, code, key)

Update(in, tasks, enterKeepsFocus, code) == UpdateAs(in, tasks, enterKeepsFocus, code, code)

\* a frame with no input
GuiFrame ==
    \E tasks \in list_tasks(files) : Update(Input(NoKeyPress, "", 0), tasks, TRUE, "")

\* a frame with a key press; one that edits the focused text field is "Edit"
GuiKey ==
    \E ev \in GuiKeys, tasks \in list_tasks(files) :
        \E enterKeepsFocus \in IF ev.key = "Enter" THEN BOOLEAN ELSE {TRUE} :
            Update(Input(ev, "", 0), tasks, enterKeepsFocus,
                   IF focus # "none" /\ (key_text(ev) # None \/ ev.key = "Backspace")
                   THEN "Edit" ELSE "Key")

\* a click on an entry of the project dropdown
GuiPickProject ==
    \E tasks \in list_tasks(files),
       choice \in {None} \cup {Some(k) : k \in Range(load_projects(projFiles))} :
        Update(Input(NoKeyPress, "project", choice), tasks, TRUE, "Click")

\* a click on a text field, on the Create button, or next to every widget
GuiClick ==
    \E tasks \in list_tasks(files), w \in {"filter", "new_proj", "create", "elsewhere"} :
        Update(Input(NoKeyPress, w, 0), tasks, TRUE, "Click")

\* a click on a row of the task list: only the tasks that pass the filters
\* have one
GuiClickTask ==
    \E tasks \in list_tasks(files) :
        \E i \in 0..(Len(tasks) - 1) :
            /\ passes(tasks[i + 1], app.project_filter, app.filter)
            /\ Update(Input(NoKeyPress, "task", i), tasks, TRUE, "Click")

\* a click on one of the three status buttons of the detail panel
GuiClickStatus ==
    \E tasks \in list_tasks(files), st \in Status :
        /\ tasks # <<>>
        /\ Update(Input(NoKeyPress, "status", st), tasks, TRUE, "Click")

NextGui ==
    \/ GuiFrame
    \/ GuiKey
    \/ GuiPickProject
    \/ GuiClick
    \/ GuiClickTask
    \/ GuiClickStatus

SpecGui == InitGui /\ [][NextGui]_vars

(***************************************************************************)
(* The window under presses of g, J, K and Shift+G, with frames that have  *)
(* no input between them.  The history keeps the last key pressed across   *)
(* those frames: "g" for a first g, "gg" for a g that follows one.         *)
(***************************************************************************)
GKey == KeyPress("G", FALSE, FALSE)
GgKeys == {GKey, KeyPress("J", FALSE, FALSE), KeyPress("K", FALSE, FALSE),
           KeyPress("G", FALSE, TRUE)}
KeyName(ev) ==
    IF ev = GKey THEN (IF pressed.code = "g" THEN "gg" ELSE "g")
    ELSE IF ev.shift THEN "Shift+" \o ev.key
    ELSE ev.key

InitGg == InitNav

GuiGgKey ==
    \E ev \in GgKeys, tasks \in list_tasks(files) :
        UpdateAs(Input(ev, "", 0), tasks, TRUE, "Key", KeyName(ev))

\* a frame without input: a repaint, a key release, a move of the pointer
GuiQuietFrame ==
    \E tasks \in list_tasks(files) :
        UpdateAs(Input(NoKeyPress, "", 0), tasks, TRUE, "", pressed.code)

NextGg ==
    \/ GuiGgKey
    \/ GuiQuietFrame

SpecGg == InitGg /\ [][NextGg]_vars

(***************************************************************************)
(* Sessions whose user opens the command bar, types a `new` or a `status`  *)
(* line and runs it.  A line is written down as its tokens: what each is   *)
(* meant as, its text, and the characters typed for it.                    *)
(***************************************************************************)
Tok(kind, text, typed) == [kind |-> kind, text |-> text, typed |-> typed]
TitleTok(text) == Tok("title", text, text)
QuotedTok(text) == Tok("title", text, <<QUOTE>> \o text \o <<QUOTE>>)
ProjectTok(v) == Tok("project", v, P_project \o v)
DueTok(v) == Tok("due", v, P_due \o v)
TagTok(v) == Tok("tag", v, P_plus \o v)

RECURSIVE Typed(_)
Typed(toks) == IF toks = <<>> THEN <<>> ELSE <<SP>> \o Head(toks).typed \o Typed(Tail(toks))

\* the token lists of the `new` lines typed
NewLines ==
    {<<QuotedTok(<<"a", SP, "b">>), ProjectTok(<<"h">>), TagTok(<<"t">>), DueTok(<<"1">>)>>,
     <<ProjectTok(<<"h">>), QuotedTok(<<"a", SP, "b">>), TagTok(<<"t">>)>>,
     <<TagTok(<<"t">>), TitleTok(<<"a">>), TagTok(<<"u">>)>>,
     <<DueTok(<<"1">>), TagTok(<<>>), TitleTok(<<"a">>)>>,
     <<TitleTok(<<"a">>), TitleTok(<<"b">>)>>,
     <<ProjectTok(<<"h">>), TagTok(<<"t">>)>>,
     <<>>}

\* the `status` lines typed: the id given, if any, and the status token
StatusLine(id, tok) == [id |-> id, tok |-> tok]
StatusLines ==
    {StatusLine(None, Some(S_done)), StatusLine(None, Some(S_todo)),
     StatusLine(None, Some(S_in_progress)), StatusLine(None, Some(W_next)),
     StatusLine(None, Some(<<"x">>)), StatusLine(None, None),
     StatusLine(Some(<<"t", "1">>), Some(S_doing)),
     StatusLine(Some(<<"t", "1">>), Some(S_in_progress_u)),
     StatusLine(Some(<<"t", "2">>), Some(W_prev)),
     StatusLine(Some(<<"t", "1">>), Some(<<"x">>))}
TypedStatus(l) ==
    W_status \o (IF l.id = None THEN <<>> ELSE <<SP>> \o l.id[1])
             \o (IF l.tok = None THEN <<>> ELSE <<SP>> \o l.tok[1])

ExTypedLines ==
    {W_new \o Typed(toks) : toks \in NewLines} \cup {TypedStatus(l) : l \in StatusLines}
ExTypedKeys == {Char(c) : c \in UNION {Range(l) : l \in ExTypedLines}}

InitEx == InitNav

\* in Browsing: ':', after a move of the selection or without one
TuiOpenBar ==
    /\ session = "running"
    /\ ~ex_mode
    /\ input_mode = "None"
    /\ events < MaxEvents
    /\ \E tasks_all \in list_tasks(files) :
          \E s \in {Looped(tasks_all)}, visible \in {visible_of(tasks_all, cur_project, filter)} :
              \E k \in {Char(":"), Char("j")} :
                  \E t \in {browse_key(s, k, tasks_all, visible)} : TuiLeaves(t, "None", k)

\* a character of the one line the session types into the command bar,
\* while the budget has the Enter that runs it left
TuiTypeKey ==
    /\ session = "running"
    /\ ex_mode
    /\ events < MaxEvents
    /\ ex_result = None
    /\ \E tasks_all \in list_tasks(files) :
          \E s \in {Looped(tasks_all)} :
              \E k \in ExTypedKeys :
                  \E t \in {ex_key(s, k)} : TuiLeavesTyped(t, "Ex", k, ExTypedLines)

NextEx ==
    \/ TuiIdle
    \/ TuiOpenBar
    \/ TuiTypeKey
    \/ TuiExEnter

SpecEx == InitEx /\ [][NextEx]_vars

(***************************************************************************)
(* Both front-ends open on one vault, their user pressing control chords   *)
(* on the letters both handle: the terminal reports the character (of      *)
(* either case) and the modifiers, egui the key and the modifiers.         *)
(***************************************************************************)
ChordLetters == {"d", "u", "j", "k", "x", "q"}
TuiChords ==
    {KeyEvent("Char", c, TRUE, shift) :
        c \in ChordLetters \cup {to_ascii_uppercase(l) : l \in ChordLetters},
        shift \in BOOLEAN}
GuiChords == {KeyPress(to_ascii_uppercase(l), TRUE, shift) : l \in ChordLetters, shift \in BOOLEAN}

InitChord == InitNav

TuiChord ==
    /\ session = "running"
    /\ ~ex_mode
    /\ input_mode = "None"
    /\ events < MaxEvents
    /\ \E tasks_all \in list_tasks(files) :
          \E s \in {Looped(tasks_all)}, visible \in {visible_of(tasks_all, cur_project, filter)} :
              \E k \in TuiChords :
                  \E t \in {browse_key(s, k, tasks_all, visible)} : TuiLeaves(t, "None", k)

GuiChord ==
    \E ev \in GuiChords, tasks \in list_tasks(files) :
        Update(Input(ev, "", 0), tasks, TRUE, "Key")

NextChord ==
    \/ TuiIdle
    \/ TuiChord
    \/ GuiChord

SpecChord == InitChord /\ [][NextChord]_vars

(***************************************************************************)
(* Sessions that pick projects and name new ones: a title, a blank, and a   *)
(* title with no alphanumeric character.                                   *)
(***************************************************************************)
ProjectTitles == {<<"b">>, <<SP>>, <<"!">>}

\* vaults of one and of several tasks, with no, one and two projects
InitProject ==
    /\ \E n \in {1, MaxTasks} : files = ManyTasks(n)
    /\ \E keys \in {{}, {<<"h">>}, {<<"h">>, <<"i">>}} :
          projFiles = [k \in keys |-> ProjectFile(k)]
    /\ now = MaxTasks - 1
    /\ issued = 0
    /\ calls = 0
    /\ last = NoCall
    /\ track = NoTrack
    /\ listed = NoListing
    /\ events = 0
    /\ pressed = NoKey
    /\ acted = NoAct
    /\ config = NoConfig
    /\ inflight = NoFlights
    /\ InitTuiVars(NoConfig)
    /\ InitApp(NoConfig)

TuiNameProjectKey ==
    /\ session = "running"
    /\ ~ex_mode
    /\ input_mode = "NewProject"
    /\ \E tasks_all \in list_tasks(files) :
          \E s \in {Looped(tasks_all)} :
              \E k \in TuiKeys \cup {Char(c) : c \in UNION {Range(t) : t \in ProjectTitles}} :
                  /\ Budgeted("NewProject", k)
                  /\ \E t \in {new_project_key(s, k)} :
                         TuiLeavesIn(t, "NewProject", k, ExLines, ProjectTitles, FilterTexts)

NextProject ==
    \/ TuiIdle
    \/ TuiBrowseKey
    \/ TuiPickProjectKey
    \/ TuiNameProjectKey

SpecProject == InitProject /\ [][NextProject]_vars

(***************************************************************************)
(* Two processes on one vault, each running one mutation of the same task: *)
(* no lock is taken, so the reads and the writes interleave in any order.  *)
(***************************************************************************)
RaceId == ListedId(1)

InitRace ==
    /\ InitNav
    /\ files = ManyTasks(1)

\* find_task_file_by_id, fs::read_to_string, extract_frontmatter_and_body
Reads(p) ==
    /\ inflight[p].pc = "idle"
    /\ \E m \in Mutations :
          inflight' = [inflight EXCEPT ![p] = [pc |-> "read", m |-> m,
                                               l |-> locate(files, RaceId)]]
    /\ UNCHANGED <<storeVars, histVars, tuiVars, guiVars, events, pressed, acted, config>>

\* the field is set, updated is read from the clock, and fs::write
Writes(p) ==
    /\ inflight[p].pc = "read"
    /\ \E r \in {write_back(files, RaceId, inflight[p], Tick(now))} :
          /\ files' = r.files
          /\ last' = Call(inflight[p].m.op, RaceId, r.ok, r.path, <<>>)
    /\ now' = Tick(now)
    /\ calls' = calls + 1
    /\ inflight' = [inflight EXCEPT ![p].pc = "done"]
    /\ UNCHANGED <<projFiles, issued, track, listed, tuiVars, guiVars, events, pressed, acted,
                   config>>

NextRace ==
    \/ \E p \in Procs : Reads(p)
    \/ \E p \in Procs : Writes(p)

SpecRace == InitRace /\ [][NextRace]_vars

(***************************************************************************)
(* Sessions whose user types the keys bound to quit in every mode: q of    *)
(* the defaults, and b and Esc bound by the configuration file.            *)
(***************************************************************************)
QuitConfig ==
    Config("table", << <<LuaString(<<"b">>), LuaString("quit")>>,
                       <<LuaString(T_Esc), LuaString("quit")>> >>)
QuitTexts == {<<"q", "b">>, <<"b", "q">>}
QuitKeys ==
    {Char(c) : c \in {"q", "b", ":", "/", "D", "R", "T", "P", "O"}}
    \cup {Special("Esc"), Special("Enter")}

InitQuit ==
    /\ files = ManyTasks(1)
    /\ projFiles = [k \in {<<"h">>} |-> LegacyProject]
    /\ now = MaxTasks - 1
    /\ issued = 0
    /\ calls = 0
    /\ last = NoCall
    /\ track = NoTrack
    /\ listed = NoListing
    /\ events = 0
    /\ pressed = NoKey
    /\ acted = NoAct
    /\ \E cfg \in {NoConfig, QuitConfig} : config = cfg /\ InitTuiVars(cfg)
    /\ inflight = NoFlights
    /\ InitApp(NoConfig)

\* the name of the mode the turn finds
ModeOf(s) == IF s.ex_mode THEN "Ex" ELSE s.input_mode

TuiKey ==
    /\ session = "running"
    /\ \E tasks_all \in list_tasks(files) :
          \E s \in {Looped(tasks_all)}, visible \in {visible_of(tasks_all, cur_project, filter)} :
              \E k \in QuitKeys, renameOk \in BOOLEAN :
                  /\ Budgeted(ModeOf(s), k)
                  /\ \E t \in {key_event(s, k, config, tasks_all, visible, renameOk)} :
                         TuiLeavesIn(t, ModeOf(s), k, QuitTexts, QuitTexts, QuitTexts)

NextQuit ==
    \/ TuiIdle
    \/ TuiKey

SpecQuit == InitQuit /\ [][NextQuit]_vars

(***************************************************************************)
(* set_tags_csv on every text of up to MaxCsv characters out of '+', ',',  *)
(* ' ' and a letter.                                                       *)
(***************************************************************************)
CsvChars == {"+", ",", SP, "x"}
CsvTexts == UNION {[1..n -> CsvChars] : n \in 0..MaxCsv}

InitTags ==
    /\ InitNav
    /\ files = ManyTasks(1)

\* one call on the vault as it starts
SetTagsTyped ==
    \E id \in Ids, csv \in CsvTexts, tnow \in 1..MaxClock :
        /\ Clock(tnow)
        /\ calls = 0
        /\ calls' = 1
        /\ LET r == set_tags_csv(files, id, csv, tnow)
           IN /\ files' = r.files
              /\ last' = Call("set_tags_csv", id, r.ok, r.path, csv)
        /\ now' = tnow
        /\ track' = NoTrack
        /\ listed' = NoListing
        /\ UNCHANGED <<projFiles, issued>>
        /\ UNCHANGED frontVars

NextTags == SetTagsTyped

SpecTags == InitTags /\ [][NextTags]_vars


(***************************************************************************)
(* Properties of the store.                                                *)
(***************************************************************************)
CanonicalStatus == {S_todo, S_doing, S_done}
MetadataOps == {"set_status", "cycle_status", "set_due", "set_tags_csv", "rename_title"}
Decodable(fs) == {p \in md_files(fs) : extract_frontmatter(fs[p]).ok}
BodyOf(f) == extract_frontmatter_and_body(f).body

\* C1: after three cycle_status calls forward on a task, and after one forward
\* then one backward, the task has the status it started with; when the
\* stored name was one of todo, doing, done the stored name is the same too.
C1_CycleStatusReturns ==
    (track.dirs = <<1, 1, 1>> \/ track.dirs = <<1, -1>>) =>
        /\ StoredStatus(files, track.id) # None
        /\ Status_from_str(StoredStatus(files, track.id)[1]) = Status_from_str(track.from)
        /\ track.from \in CanonicalStatus => StoredStatus(files, track.id)[1] = track.from

C1_Witness ==
    /\ track.dirs = <<1, 1, 1>>
    /\ track.from = S_done
    /\ last.op = "cycle_status" /\ last.ok

\* C3: create_task with an empty title fails and writes no file.
C3_EmptyTitleRejected ==
    (last.op = "create_task" /\ last.arg = <<>>) =>
        /\ ~last.ok
        /\ \A p \in DOMAIN files : files[p].fm.id # IdOf(issued)

\* C4: right after a successful create_task returning id, find_task_file_by_id(id)
\* is the path of the file just written, and the task decoded from it has
\* status todo and created equal to updated.
C4_CreatedTaskFound ==
    (last.op = "create_task" /\ last.ok) =>
        /\ find_task_file_by_id(files, last.id) = last.path
        /\ last.path[1] \in DOMAIN files
        /\ LET d == extract_frontmatter(files[last.path[1]])
           IN /\ d.ok
              /\ d.fm.id = last.id
              /\ Status_from_str(d.fm.status) = "Todo" /\ d.fm.status = S_todo
              /\ d.fm.created = d.fm.updated /\ d.fm.created # None

C4_Witness ==
    /\ last.op = "create_task" /\ last.ok
    /\ Cardinality(Decodable(files)) >= 2

\* C6: no two task files decode to the same identifier, and no operation
\* changes the identifier or the created timestamp of a task.
IdsUnique(fs) ==
    \A p, q \in Decodable(fs) : fs[p].fm.id = fs[q].fm.id => p = q

C6_IdsUniqueAndImmutable ==
    [][/\ IdsUnique(files')
       /\ \A p \in Decodable(files) :
             \E q \in Decodable(files') :
                /\ files'[q].fm.id = files[p].fm.id
                /\ files'[q].fm.created = files[p].fm.created]_vars

C6_Witness ==
    /\ Cardinality(Decodable(files)) >= 3
    /\ last.op = "rename_title" /\ last.ok
    /\ last.path[1].slug # files[last.path[1]].fm.key \/ last.path[1].slug = <<"b", "-", "c">>

\* C7: a metadata-only mutation leaves the body of the task file, the text
\* after the second delimiter line, as it was.
C7_BodyPreserved ==
    [][(last'.op \in MetadataOps /\ last'.ok) =>
          /\ find_task_file_by_id(files, last'.id) # None
          /\ BodyOf(files'[last'.path[1]])
                = BodyOf(files[find_task_file_by_id(files, last'.id)[1]])]_vars

C7_Witness ==
    /\ last.op \in MetadataOps /\ last.ok
    /\ BodyOf(files[last.path[1]]) = <<"-", NL, "x">>

\* C8: a successful set_status, set_due or set_tags_csv changes only its field
\* and the updated timestamp of its task; the other fields, the path, the
\* other task files and the projects stay as they were.
FieldOf(op) ==
    CASE op = "set_status" -> "status"
      [] op = "set_due" -> "due"
      [] op = "set_tags_csv" -> "tags"

SameBut(a, b, field) ==
    \A k \in (DOMAIN a) \ {field, "updated"} : a[k] = b[k]

C8_OnlyTargetedField ==
    [][(last'.op \in {"set_status", "set_due", "set_tags_csv"} /\ last'.ok) =>
          /\ find_task_file_by_id(files, last'.id) = last'.path
          /\ DOMAIN files' = DOMAIN files
          /\ \A p \in (DOMAIN files) \ {last'.path[1]} : files'[p] = files[p]
          /\ projFiles' = projFiles
          /\ DOMAIN files'[last'.path[1]].fm = DOMAIN files[last'.path[1]].fm
          /\ SameBut(files'[last'.path[1]].fm, files[last'.path[1]].fm, FieldOf(last'.op))
          /\ files'[last'.path[1]].fm.updated = Some(now')]_vars

C8_Witness ==
    /\ last.op = "set_due" /\ last.ok
    /\ files[last.path[1]].fm.tags # <<>>
    /\ files[last.path[1]].fm.created # files[last.path[1]].fm.updated
    /\ Cardinality(DOMAIN files) >= 2

\* C9: a single-task mutation called with an id that no task file decodes to
\* fails and leaves every file of the vault as it was.
C9_UnknownIdFails ==
    [][(last'.op \in MetadataOps /\ find_candidates(files, last'.id) = {}) =>
          /\ ~last'.ok
          /\ files' = files
          /\ projFiles' = projFiles]_vars

C9_Witness ==
    /\ last.op \in MetadataOps /\ ~last.ok
    /\ last.id = CorruptId
    /\ CorruptPath \in DOMAIN files

C2_ExEnterKeepsSession ==
    (pressed = Pressed("Ex", "Enter")) =>
        /\ session = "running"
        /\ ~ex_mode
        /\ input_mode = "None"
        /\ ex_result # None

C11_ListingFilteredByProject ==
    listed.op = "list_tasks" =>
        LET wanted == {p \in DOMAIN files :
                         /\ files[p].shape = "ok"
                         /\ listed.project # None => files[p].fm.project = listed.project[1]}
        IN /\ Len(listed.tasks) = Cardinality(wanted)
           /\ \A p \in wanted :
                 \E i \in DOMAIN listed.tasks : listed.tasks[i].id = files[p].fm.id
           /\ \A i \in DOMAIN listed.tasks :
                 listed.project # None => listed.tasks[i].project = listed.project[1]

\* the instant a task was last updated, before every instant when its file
\* holds none
UpdateTime(fs, id) ==
    LET p == CHOOSE p \in DOMAIN fs : fs[p].shape = "ok" /\ fs[p].fm.id = id
    IN IF fs[p].fm.updated = None THEN -1 ELSE fs[p].fm.updated[1]

\* C12: in every listing list_tasks can return, a task is not updated earlier
\* than any task after it; a task with no updated value is the oldest.
C12_ListingByUpdateTime ==
    \A l \in list_tasks(files) :
        \A i, j \in DOMAIN l :
            i < j => UpdateTime(files, l[i].id) >= UpdateTime(files, l[j].id)
(***************************************************************************)
(* Properties of the terminal session.                                     *)
(***************************************************************************)
NavActions == {"MoveDown", "MoveUp", "HalfPageDown", "HalfPageUp", "GoTop", "GoBottom"}
InList(sel, len) == IF len = 0 THEN sel = 0 ELSE sel \in 0..(len - 1)
TuiKeyed == pressed.mode \notin {"", "Gui"}

\* C13: the selection a key of the terminal session finds, and the one a
\* navigation action leaves, is within the visible list (0 when it is empty);
\* move-down at the last index and navigation on an empty list leave it as
\* it was.
C13_SelectionInVisible ==
    /\ TuiKeyed => InList(acted.selected, Len(acted.visible))
    /\ (TuiKeyed /\ acted.action \in NavActions) =>
          /\ InList(selected, Len(acted.visible))
          /\ (acted.action = "MoveDown" /\ acted.selected + 1 >= Len(acted.visible))
                => selected = acted.selected
          /\ Len(acted.visible) = 0 => selected = acted.selected

C13_Witness ==
    /\ TuiKeyed
    /\ acted.action = "MoveDown"
    /\ Len(acted.visible) > 0
    /\ acted.selected = Len(acted.visible) - 1
    /\ selected = acted.selected
\* C14: a half-page action moves the selection by half the length of the
\* visible list rounded up, at least 1, and then clamps it to the list.
C14_HalfPageJump ==
    (TuiKeyed /\ acted.action \in {"HalfPageDown", "HalfPageUp"}) =>
        LET n == Len(acted.visible)
            jump == max((n + 1) \div 2, 1)
        IN selected = IF acted.action = "HalfPageDown"
                      THEN min(acted.selected + jump, max(n - 1, 0))
                      ELSE max(acted.selected - jump, 0)
\* C15: the chord runs go-to-top only on a g that follows a g pressed in
\* Browsing with no other key in between; any other key cancels a pending g.
C15_ChordCancelledByOtherKey ==
    [][(/\ events' = events + 1
        /\ pressed' = Pressed("None", "g")
        /\ acted'.action = "GoTop")
          => pressed = Pressed("None", "g")]_vars
\* C16: exactly one mode is active: the command bar is open only while the
\* input mode is the Browsing one.
C16_OneModeActive ==
    /\ input_mode \in InputMode
    /\ ex_mode => input_mode = "None"

C16_Witness ==
    /\ ex_mode
    /\ input_mode = "None"
    /\ ex_input # <<>>
    /\ filter # <<>>
\* C17: whenever a key takes the session from Browsing into a text-entry
\* mode, the buffer of that mode is empty: the filter text in Filter, the
\* input buffer in the Edit modes and NewProject, the command line in the bar.
C17_BufferEmptyOnEntry ==
    [][(input_mode = "None" /\ ~ex_mode) =>
          /\ input_mode' = "Filter" => filter' = <<>>
          /\ input_mode' \in {"EditDue", "EditTitle", "EditTags", "NewProject"}
                => input_buf' = <<>>
          /\ ex_mode' => ex_input' = <<>>]_vars
\* C18: Esc in an Edit mode, PickProject, NewProject or the command bar takes
\* the session back to Browsing with the buffer of the mode emptied, writes
\* nothing to the vault and leaves the current project and the last result
\* as they were.
C18_CancelDiscards ==
    [][(/\ events' = events + 1
        /\ pressed'.code = "Esc"
        /\ pressed'.mode \in {"Ex", "EditDue", "EditTitle", "EditTags", "PickProject",
                              "NewProject"})
          => /\ input_mode' = "None"
             /\ ~ex_mode'
             /\ pressed'.mode = "Ex" => ex_input' = <<>>
             /\ pressed'.mode # "Ex" => input_buf' = <<>>
             /\ files' = files
             /\ projFiles' = projFiles
             /\ calls' = calls
             /\ cur_project' = cur_project
             /\ ex_result' = ex_result]_vars

C18_Witness ==
    /\ pressed = Pressed("EditTitle", "Esc")
    /\ input_mode = "None"
    /\ input_buf = <<>>
    /\ ex_result # None
(***************************************************************************)
(* Properties of the keymap.                                               *)
(***************************************************************************)
\* C19: the built-in default keymap covers all actions: a session that runs
\* on the defaults has, for each of the 13 actions, a token that resolves
\* to it.
C19_DefaultsCoverAllActions ==
    (keymap = default_keymap) =>
        \A a \in Action : \E token \in DOMAIN keymap : lookup(keymap, token) = Some(a)
\* the entries of keymaps.normal that are to be applied: the key is a string
\* or a number, the value a string that names an action
Recognized(pair) ==
    /\ pair[1].type \in {"String", "Integer"} /\ pair[1].utf8
    /\ pair[2].type = "String" /\ pair[2].utf8
    /\ parse_action_name(pair[2].v) # None
TokenOf(pair) == IF pair[1].type = "String" THEN pair[1].v ELSE to_string(pair[1].v)
Overrides(pairs) == {pair \in Range(pairs) : Recognized(pair)}

\* C20: when the configuration file evaluates to a table with a
\* keymaps.normal table, the keymap loaded from it (at the start of the
\* session or by :config.reload) is the default keymap overridden by exactly
\* the entries with a recognized action name: a token of such an entry
\* resolves to the entry's action, every other token resolves as in the
\* defaults, whatever unrecognized or malformed entries the table also holds.
C20_KeymapIsDefaultsOverridden ==
    (config.kind = "table") =>
        /\ DOMAIN keymap = DOMAIN default_keymap \cup {TokenOf(pair) : pair \in Overrides(config.pairs)}
        /\ \A pair \in Overrides(config.pairs) :
               lookup(keymap, TokenOf(pair)) = parse_action_name(pair[2].v)
        /\ \A token \in DOMAIN default_keymap :
               token \notin {TokenOf(pair) : pair \in Overrides(config.pairs)}
                   => lookup(keymap, token) = lookup(default_keymap, token)

\* the same about the tables whose strings are all UTF-8
C20_WellEncodedTables ==
    (config.kind = "table" /\ \A pair \in Range(config.pairs) : pair[1].utf8 /\ pair[2].utf8)
        => C20_KeymapIsDefaultsOverridden

\* the last key was the Enter that ran :config.reload
Reloaded ==
    /\ pressed = Pressed("Ex", "Enter")
    /\ ex_result = Result(FALSE, "config reloaded", <<>>)

\* C21: when the configuration file cannot be read or does not evaluate, the
\* keymap loaded is exactly the default keymap and the caller goes on: at the
\* start of the session, and after :config.reload, when the session is
\* running in Browsing with the defaults in effect.
C21_LoadFailureFallsBack ==
    (config.kind = "error") =>
        /\ keymap = default_keymap
        /\ session # "panicked"
        /\ (events = 0 \/ Reloaded) =>
               session = "running" /\ ~ex_mode /\ input_mode = "None"

C21_Witness ==
    /\ config.kind = "error"
    /\ Reloaded
    /\ events = 2

\* C22: the two normalizers agree on control chords: for each of the letters
\* d, u, j, k, x, q pressed with control, with or without shift, the
\* terminal's keyevent_to_token and the window's egui_key_to_token both give
\* the token Ctrl-<lowercase letter>; Ctrl-d resolves to half-page-down in
\* the default keymap.
C22_ChordTokensAgree ==
    /\ \A k \in TuiChords :
           keyevent_to_token(k) = Some(T_Ctrl \o <<to_ascii_lowercase(k.c)>>)
    /\ \A ev \in GuiChords :
           egui_key_to_token(ev) = Some(T_Ctrl \o <<to_ascii_lowercase(ev.key)>>)
    /\ \A k \in TuiChords, ev \in GuiChords :
           to_ascii_uppercase(k.c) = ev.key => keyevent_to_token(k) = egui_key_to_token(ev)
    /\ lookup(default_keymap, T_Ctrl \o <<"d">>) = Some("HalfPageDown")
    /\ (pressed = Pressed("None", "D") /\ keymap = default_keymap)
           => acted.action = "HalfPageDown"

\* control+shift+D ran half-page-down in the terminal after control+D had
\* moved the selection of the window
C22_Witness ==
    /\ pressed = Pressed("None", "D")
    /\ acted.action = "HalfPageDown"
    /\ app.selected > 0

\* what a `new` line is meant to give, from its tokens
TitlesOf(toks) == SelectSeq(toks, LAMBDA tok : tok.kind = "title")
ValuesOf(toks, kind) == {tok.text : tok \in {x \in Range(toks) : x.kind = kind}}
RECURSIVE TagsOf(_)
TagsOf(toks) ==
    IF toks = <<>> THEN <<>>
    ELSE (IF Head(toks).kind = "tag" /\ Head(toks).text # <<>> THEN <<Head(toks).text>> ELSE <<>>)
             \o TagsOf(Tail(toks))

\* the Enter that runs the line typed
RunsLine(line) ==
    /\ ex_mode /\ ex_input = line
    /\ pressed' = Pressed("Ex", "Enter") /\ events' = events + 1

\* the task file written by the step
Made == extract_frontmatter(files'[last'.path[1]]).fm

\* C23: running a `new` line creates the task of the New command parsed from
\* it: the title is the first token that matches no flag prefix (a quoted
\* span being one token, without its quotes), project and due are the values
\* of the project: and due: tokens, the tags are the non-empty + tokens in
\* order, wherever the flags stand; a line without a title token fails with
\* the error and creates nothing.
C23_NewLineParsed ==
    [][\A toks \in NewLines :
          RunsLine(W_new \o Typed(toks)) =>
              IF TitlesOf(toks) = <<>>
              THEN /\ ex_result' =
                        Result(TRUE, ":new requires a title (quoted if it has spaces)", <<>>)
                   /\ files' = files /\ calls' = calls
              ELSE /\ last'.op = "create_task" /\ last'.ok
                   /\ Made.title = TitlesOf(toks)[1].text
                   /\ Made.project \in (IF ValuesOf(toks, "project") = {} THEN {S_inbox}
                                         ELSE ValuesOf(toks, "project"))
                   /\ Made.due \in (IF ValuesOf(toks, "due") = {} THEN {None}
                                     ELSE {Some(v) : v \in ValuesOf(toks, "due")})
                   /\ Made.tags = TagsOf(toks)]_vars

\* a task made from a line whose title stands after a flag
C23_Witness ==
    /\ pressed = Pressed("Ex", "Enter")
    /\ last.op = "create_task" /\ last.ok
    /\ last.arg = <<"a", SP, "b">>
    /\ \E f \in DOMAIN files :
           /\ extract_frontmatter(files[f]).fm.title = <<"a", SP, "b">>
           /\ extract_frontmatter(files[f]).fm.project = <<"h">>
           /\ extract_frontmatter(files[f]).fm.tags = << <<"t">> >>
           /\ extract_frontmatter(files[f]).fm.due = None

\* the status a token names: a status to set, a direction to cycle in, or none
Named(tok) ==
    CASE tok = S_todo -> "Todo"
      [] tok \in {S_doing, S_in_progress, S_in_progress_u} -> "Doing"
      [] tok = S_done -> "Done"
      [] tok = W_next -> "Next"
      [] tok = W_prev -> "Prev"
      [] OTHER -> ""

\* the step called the store for the Status command (id, set): set_status to
\* the status named, cycle_status in the direction named
CallsStatus(id, set) ==
    /\ calls' = calls + 1
    /\ last'.id = id
    /\ last'.op = IF set \in {"Next", "Prev"} THEN "cycle_status" ELSE "set_status"
    /\ last'.ok =>
          LET was == Status_from_str(extract_frontmatter(files[last'.path[1]]).fm.status)
              is == Status_from_str(extract_frontmatter(files'[last'.path[1]]).fm.status)
          IN is = CASE set = "Next" -> Status_next(was)
                    [] set = "Prev" -> Status_prev(was)
                    [] OTHER -> set

\* C24: running `status <tok>` acts on the selection (id = None) with the
\* status tok names, running `status <id> <tok>` acts on the task id; the
\* line fails with an error, and nothing is called, when it has no argument
\* and when the status token is none of todo, doing, in-progress,
\* in_progress, done, next, prev.
C24_StatusLineParsed ==
    [][\A l \in StatusLines :
          RunsLine(TypedStatus(l)) =>
              IF l.tok = None
              THEN /\ ex_result' =
                        Result(TRUE, "usage: :status [<id>] (todo|doing|done|next|prev)", <<>>)
                   /\ files' = files /\ calls' = calls
              ELSE IF Named(l.tok[1]) = ""
              THEN /\ ex_result' = Result(TRUE, "unknown status '{s}'", <<l.tok[1]>>)
                   /\ files' = files /\ calls' = calls
              ELSE IF l.id # None THEN CallsStatus(l.id[1], Named(l.tok[1]))
              ELSE IF acted'.visible = <<>>
              THEN /\ ex_result' = Result(TRUE, "no task selected", <<>>)
                   /\ files' = files /\ calls' = calls
              ELSE CallsStatus(acted'.visible[acted'.selected + 1], Named(l.tok[1]))]_vars

\* `status t1 in_progress` has set the task t1, which is not the selected one
C24_Witness ==
    /\ pressed = Pressed("Ex", "Enter")
    /\ last.op = "set_status" /\ last.ok /\ last.id = <<"t", "1">>
    /\ acted.visible # <<>>
    /\ acted.visible[acted.selected + 1] # <<"t", "1">>
    /\ ex_result = Result(FALSE, "status set: {}", <<S_doing>>)

\* the step is a rename_title(id, title) that returned Ok, on the file at old
RenamedTitle(old) ==
    /\ calls' = calls + 1
    /\ last'.op = "rename_title" /\ last'.ok
    /\ find_task_file_by_id(files, last'.id) = Some(old)
NameFor(old, title, id) == TaskPath(old.date, slugify(title), id)
Stored(fs, path) == extract_frontmatter(fs[path]).fm

\* C25: after a rename_title(id, title) that returned Ok and whose fs::rename
\* succeeded, the metadata hold title and its slug, the file is named
\* <date>--<slug of title>--<id>.md with its date as before, no file is left
\* at the old path, and the task is found by id at the new path.
C25_RenamedFileFollowsTitle ==
    [][\A old \in DOMAIN files :
          (RenamedTitle(old) /\ last'.renamed /\ NameFor(old, last'.arg, last'.id) # old) =>
              LET new == NameFor(old, last'.arg, last'.id)
              IN /\ new \in DOMAIN files'
                 /\ old \notin DOMAIN files'
                 /\ Stored(files', new).title = last'.arg
                 /\ Stored(files', new).key = slugify(last'.arg)
                 /\ Stored(files', new).id = last'.id
                 /\ find_task_file_by_id(files', last'.id) = Some(new)
                 /\ last'.path = Some(new)]_vars

\* a task renamed to a title with capitals and punctuation, now found under
\* the slug of that title
C25_Witness ==
    /\ last.op = "rename_title" /\ last.ok /\ last.renamed
    /\ last.arg = <<"B", "!", "c">>
    /\ last.path # None
    /\ last.path[1].slug = <<"b", "-", "c">>
    /\ find_task_file_by_id(files, last.id) = last.path

\* C26: when the fs::rename inside rename_title fails, rename_title still
\* returns Ok: title, slug and updated are written, the file stays at its
\* old path and is found there by id.
C26_FailedRenameKeepsPath ==
    [][\A old \in DOMAIN files :
          (/\ calls' = calls + 1
           /\ last'.op = "rename_title"
           /\ find_task_file_by_id(files, last'.id) = Some(old)
           /\ extract_frontmatter_and_body(files[old]).ok
           /\ ~last'.renamed
           /\ NameFor(old, last'.arg, last'.id) # old) =>
              /\ last'.ok
              /\ DOMAIN files' = DOMAIN files
              /\ Stored(files', old).title = last'.arg
              /\ Stored(files', old).key = slugify(last'.arg)
              /\ Stored(files', old).updated = Some(now')
              /\ find_task_file_by_id(files', last'.id) = Some(old)
              /\ last'.path = Some(old)]_vars

C26_Witness ==
    /\ last.op = "rename_title" /\ last.ok /\ ~last.renamed
    /\ last.arg = <<"B", "!", "c">>
    /\ last.path # None
    /\ last.path[1].slug # <<"b", "-", "c">>
    /\ Stored(files, last.path[1]).key = <<"b", "-", "c">>

\* C27: create_project with a title whose slug is the key of an existing
\* project returns Ok with that key and replaces the record: as many
\* projects as before, and the title, tags, created and updated stored are
\* those of the call.
C27_CreateProjectOverwrites ==
    [][\A p \in NewProjects :
          (/\ calls' = calls + 1
           /\ last'.op = "create_project" /\ last'.arg = p.title
           /\ slugify(p.title) \in DOMAIN projFiles
           /\ Project_from_md_file(projFiles[slugify(p.title)]).ok) =>
              LET key == slugify(p.title)
              IN /\ last'.ok /\ last'.id = key
                 /\ DOMAIN projFiles' = DOMAIN projFiles
                 /\ \A l \in list_projects(projFiles), m \in list_projects(projFiles') :
                        Len(l) = Len(m)
                 /\ \A k \in DOMAIN projFiles \ {key} : projFiles'[k] = projFiles[k]
                 /\ Project_from_md_file(projFiles'[key]).ok
                 /\ projFiles'[key].fm.key = key
                 /\ projFiles'[key].fm.title = p.title
                 /\ projFiles'[key].fm.tags = p.tags
                 /\ projFiles'[key].fm.created = Some(now')
                 /\ projFiles'[key].fm.updated = Some(now')]_vars

\* the project h of the vault, replaced by a project of another title, a tag
\* and a later time of creation
C27_Witness ==
    /\ last.op = "create_project" /\ last.ok /\ last.id = <<"h">>
    /\ projFiles[<<"h">>].fm.title = <<"h">>
    /\ projFiles[<<"h">>].fm.tags = << <<"x">> >>
    /\ projFiles[<<"h">>].fm.created = Some(now)
    /\ now > 0

\* status strings as files may hold them
StatusTexts ==
    {S_todo, S_doing, S_in_progress, S_in_progress_u, S_done, S_blocked, <<>>,
     <<"D", "o", "n", "e">>, W_next}
DoingNames == {S_doing, S_in_progress, S_in_progress_u}

\* C28: decoding a status string is total: every string that is none of the
\* names of Doing and Done decodes as Todo; so cycle_status on a task whose
\* stored status is an unknown string returns Ok and stores doing when going
\* forward, done when going backward.
C28_UnknownStatusIsTodo ==
    /\ [](\A s \in StatusTexts :
             Status_from_str(s) = IF s \in DoingNames THEN "Doing"
                                  ELSE IF s = S_done THEN "Done" ELSE "Todo")
    /\ [][(/\ calls' = calls + 1
           /\ last'.op = "cycle_status"
           /\ locate(files, last'.id).ok
           /\ locate(files, last'.id).fm.status \notin DoingNames \cup {S_done, S_todo}) =>
              /\ last'.ok
              /\ track'.dirs # <<>>
              /\ StoredStatus(files', last'.id) =
                     Some(IF track'.dirs[Len(track'.dirs)] >= 0 THEN S_doing ELSE S_done)]_vars

\* the task stored as blocked has been cycled backward and is done
C28_Witness ==
    /\ last.op = "cycle_status" /\ last.ok
    /\ track.from = S_blocked
    /\ track.dirs = <<-1>>
    /\ StoredStatus(files, last.id) = Some(S_done)

\* the key just handled in Browsing was the character c
BrowsedKey(c) ==
    /\ ~ex_mode /\ input_mode = "None"
    /\ events' = events + 1
    /\ pressed' = Pressed("None", c)

\* the project filter after step presses of ']' (forward) or '[' (backward)
RECURSIVE Cycled(_, _, _)
Cycled(s, step, presses) ==
    IF presses = 0 THEN s.cur_project ELSE Cycled(cycle_project(s, step), step, presses - 1)

\* C29: in Browsing, with a sorted list of n project keys and the filter on
\* the key at position i, ']' moves the filter to the key at (i+1) mod n and
\* '[' to the key at (i-1) mod n; so ']' then '[' restores the filter, and
\* so do n presses of ']'; with an empty list either key clears the filter;
\* the mode stays Browsing.
C29_ProjectCycleWraps ==
    /\ [](\A i \in 1..Len(projects) :
             (cur_project = Some(projects[i]) /\ \A j \in 1..(i - 1) : projects[j] # projects[i])
                 => /\ cycle_project(cycle_project(TuiState, 1), -1).cur_project = cur_project
                    /\ Cycled(TuiState, 1, Len(projects)) = cur_project)
    /\ [][\A step \in {1, -1} :
             BrowsedKey(IF step = 1 THEN "]" ELSE "[") =>
                 /\ input_mode' = "None" /\ ~ex_mode'
                 /\ projects' = projects
                 /\ projects = <<>> => cur_project' = None
                 /\ \A i \in 1..Len(projects) :
                        cur_project = Some(projects[i]) =>
                            cur_project' =
                                Some(projects[((i - 1 + step + Len(projects)) % Len(projects)) + 1])]_vars

\* '[' has wrapped from the first of three keys to the last
C29_Witness ==
    /\ pressed = Pressed("None", "[")
    /\ Len(projects) = 3
    /\ cur_project = Some(projects[3])
    /\ events = 2

C29_WitnessEmpty ==
    /\ pressed = Pressed("None", "]")
    /\ projects = <<>>
    /\ cur_project = None

\* C30: in Browsing, the key D, R or T always opens the edit of the due
\* date, the title or the tags with an empty buffer, whatever the keymap
\* loaded binds.
C30_FieldHotkeysOpenEdit ==
    [][\A c \in {"D", "R", "T"} :
          (session = "running" /\ BrowsedKey(c)) =>
              /\ input_mode' = (CASE c = "D" -> "EditDue"
                                  [] c = "R" -> "EditTitle"
                                  [] c = "T" -> "EditTags")
              /\ input_buf' = <<>>]_vars

\* the same under the keymaps that bind none of the three keys
C30_UnboundHotkeysOpenEdit ==
    [][(\A c \in {"D", "R", "T"} : lookup(keymap, <<c>>) = None) =>
          \A c \in {"D", "R", "T"} :
              (session = "running" /\ BrowsedKey(c)) =>
                  /\ input_mode' = (CASE c = "D" -> "EditDue"
                                      [] c = "R" -> "EditTitle"
                                      [] c = "T" -> "EditTags")
                  /\ input_buf' = <<>>]_vars

\* the key just handled was Enter, in one of the input modes given
Confirmed(modes) ==
    /\ ~ex_mode /\ input_mode \in modes
    /\ events' = events + 1
    /\ pressed' = Pressed(input_mode, "Enter")

\* what the mutation of an Edit mode returns on the task id with the buffer
EditOutcomes(mode, id) ==
    CASE mode = "EditDue" -> {set_due(files, id, input_buf, Tick(now))}
      [] mode = "EditTitle" ->
            {rename_title(files, id, input_buf, Tick(now), ok) : ok \in BOOLEAN}
      [] mode = "EditTags" -> {set_tags_csv(files, id, input_buf, Tick(now))}

\* C31: Enter in an Edit mode makes exactly one call into the store, the
\* one of the mode (set_due, rename_title, set_tags_csv) with the buffer as
\* argument on the task at the selection of the visible list, records
\* "saved" or the error as the result, and returns to Browsing with an empty
\* buffer; on an empty visible list it makes no call and still returns to
\* Browsing.
C31_EditConfirmApplies ==
    [][Confirmed({"EditDue", "EditTitle", "EditTags"}) =>
          /\ input_mode' = "None"
          /\ input_buf' = <<>>
          /\ IF acted'.visible = <<>>
             THEN /\ calls' = calls
                  /\ files' = files
                  /\ ex_result' = ex_result
             ELSE /\ calls' = calls + 1
                  /\ last'.op = (CASE input_mode = "EditDue" -> "set_due"
                                   [] input_mode = "EditTitle" -> "rename_title"
                                   [] input_mode = "EditTags" -> "set_tags_csv")
                  /\ last'.id = acted'.visible[acted'.selected + 1]
                  /\ \E r \in EditOutcomes(input_mode, acted'.visible[acted'.selected + 1]) :
                        /\ files' = r.files
                        /\ ex_result' = IF r.ok THEN Result(FALSE, "saved", <<>>)
                                        ELSE Result(TRUE, r.err, <<>>)]_vars

C31_Witness ==
    /\ pressed = Pressed("EditTags", "Enter")
    /\ last.op = "set_tags_csv"
    /\ \E p \in DOMAIN files : files[p].shape = "ok" /\ files[p].fm.tags = << <<"b">> >>
    /\ ex_result = Result(FALSE, "saved", <<>>)
    /\ input_mode = "None"

C31_WitnessEmpty ==
    /\ pressed = Pressed("EditTitle", "Enter")
    /\ acted.visible = <<>>
    /\ calls = 0
    /\ input_mode = "None"

\* C32: Enter in NewProject always returns to Browsing; on an empty or blank
\* buffer no project is created and the filter is unchanged; on any other
\* buffer, when create_project returns Ok, the filter is the key it returned
\* and that key is in the refreshed list of project keys.
C32_NewProjectConfirm ==
    [][Confirmed({"NewProject"}) =>
          /\ input_mode' = "None"
          /\ IF trim(input_buf) = <<>>
             THEN /\ projFiles' = projFiles
                  /\ calls' = calls
                  /\ cur_project' = cur_project
             ELSE (last'.op = "create_project" /\ last'.ok) =>
                      /\ cur_project' = Some(last'.id)
                      /\ last'.id \in Range(projects')]_vars

\* the same for the titles that have an alphanumeric character
C32_SluggedProjectConfirm ==
    [][(Confirmed({"NewProject"}) /\ slugify(input_buf) # <<>>) =>
          /\ input_mode' = "None"
          /\ last'.op = "create_project" /\ last'.ok
          /\ cur_project' = Some(last'.id)
          /\ last'.id \in Range(projects')
          /\ projects' = load_projects(projFiles')]_vars

\* the key just handled in PickProject had the code given
Picked(code) ==
    /\ ~ex_mode /\ input_mode = "PickProject"
    /\ events' = events + 1
    /\ pressed' = Pressed("PickProject", code)

\* C33: in PickProject the cursor is within the project list (0 when it is
\* empty); Up at the first entry and Down at the last leave it where it is;
\* Enter sets the filter to the key under the cursor, or to None when the
\* list is empty, sets the selection to 0 and returns to Browsing.
C33_PickWithinBounds ==
    /\ [](input_mode = "PickProject" => InList(project_pick_idx, Len(projects)))
    /\ [][/\ (Picked("Up") /\ project_pick_idx = 0) => project_pick_idx' = 0
          /\ (Picked("Down") /\ project_pick_idx + 1 >= Len(projects))
                => project_pick_idx' = project_pick_idx
          /\ Picked("Up") \/ Picked("Down") =>
                /\ input_mode' = "PickProject"
                /\ project_pick_idx' \in {project_pick_idx - 1, project_pick_idx,
                                          project_pick_idx + 1}
          /\ Picked("Enter") =>
                /\ cur_project' = IF projects = <<>> THEN None
                                  ELSE Some(projects[project_pick_idx + 1])
                /\ selected' = 0
                /\ input_mode' = "None"]_vars

\* the same, the selection being reset when the list has a project to pick
C33_PickOfListedProject ==
    /\ [](input_mode = "PickProject" => InList(project_pick_idx, Len(projects)))
    /\ [][/\ (Picked("Up") /\ project_pick_idx = 0) => project_pick_idx' = 0
          /\ (Picked("Down") /\ project_pick_idx + 1 >= Len(projects))
                => project_pick_idx' = project_pick_idx
          /\ Picked("Up") \/ Picked("Down") =>
                /\ input_mode' = "PickProject"
                /\ project_pick_idx' \in {project_pick_idx - 1, project_pick_idx,
                                          project_pick_idx + 1}
          /\ Picked("Enter") =>
                /\ cur_project' = IF projects = <<>> THEN None
                                  ELSE Some(projects[project_pick_idx + 1])
                /\ projects # <<>> => selected' = 0
                /\ input_mode' = "None"]_vars

\* the key just handled in Browsing ran a status action that returned Ok
StatusActed ==
    /\ pressed.mode = "None"
    /\ acted.action \in StatusActions
    /\ last.op \in {"set_status", "cycle_status"} /\ last.ok

\* C34: of two status actions handled in Browsing one after the other, with
\* no other key between them, the second is applied to the task the first
\* was applied to.
C34_ConsecutiveStatusSameTask ==
    [][(StatusActed /\ ~ex_mode /\ input_mode = "None" /\ events' = events + 1
          /\ acted'.action \in StatusActions /\ last'.op \in {"set_status", "cycle_status"})
          => last'.id = last.id]_vars

\* C35: every task file of the vault that decodes has a title that is not
\* empty, whatever keys the terminal session handled and whatever calls the
\* store served.
C35_TitlesNeverEmpty ==
    \A p \in DOMAIN files : files[p].shape = "ok" => files[p].fm.title # <<>>

\* the metadata of the task the two processes work on
Raced(fs) == fs[CHOOSE p \in DOMAIN fs : fs[p].fm.id = RaceId].fm

\* process p writes in this step
Wrote(p) == inflight[p].pc = "read" /\ inflight'[p].pc = "done"

\* process q has written, and changes another field than process p does
WroteOther(q, p) ==
    /\ inflight[q].pc = "done"
    /\ FieldOf(inflight[q].m.op) # FieldOf(inflight[p].m.op)

\* C36: when two processes each run one mutation of the same task, a write
\* leaves the file as the writer read it but for the writer's field and
\* updated, whatever the file holds by then: if the other process wrote
\* between the writer's read and its write, the other's field is back at
\* the value read and its change is lost; if the writer read the file as it
\* is now (the two ran one after the other), the write is the whole
\* mutation applied to the file and the other's change is kept.
C36_LastWriteWins ==
    [][\A p \in Procs : Wrote(p) =>
          /\ files' = write(files, inflight[p].l.path[1],
                            encode([mutate(inflight[p].l.fm, inflight[p].m)
                                      EXCEPT !.updated = Some(now')], inflight[p].l.body))
          /\ \A q \in Procs \ {p} :
                /\ (WroteOther(q, p) /\ Raced(files) # inflight[p].l.fm) =>
                      /\ Raced(files')[FieldOf(inflight[q].m.op)]
                            = inflight[p].l.fm[FieldOf(inflight[q].m.op)]
                      /\ Raced(files')[FieldOf(inflight[q].m.op)]
                            # Raced(files)[FieldOf(inflight[q].m.op)]
                /\ (Raced(files) = inflight[p].l.fm) =>
                      /\ files' = mutation(files, RaceId, inflight[p].m, now').files
                      /\ WroteOther(q, p) =>
                            Raced(files')[FieldOf(inflight[q].m.op)]
                               = Raced(files)[FieldOf(inflight[q].m.op)]]_vars

\* both wrote, the second after a read older than the write of the first:
\* the status the first set is gone
C36_Witness ==
    /\ inflight[1].pc = "done" /\ inflight[1].m = Mutation("set_status", "Done", <<>>)
    /\ inflight[2].pc = "done" /\ inflight[2].m = Mutation("set_due", "Todo", <<"1">>)
    /\ Raced(files).due = Some(<<"1">>)
    /\ Raced(files).status = S_todo

\* both wrote, one after the other: both changes are in the file
C36_WitnessSerial ==
    /\ inflight[1].pc = "done" /\ inflight[1].m = Mutation("set_status", "Done", <<>>)
    /\ inflight[2].pc = "done" /\ inflight[2].m = Mutation("set_due", "Todo", <<"1">>)
    /\ Raced(files).due = Some(<<"1">>)
    /\ Raced(files).status = S_done

\* the task a Status line is run on: the one it names, or the one at the
\* selection of the visible list the turn computed, if there is one
TargetOf(l) ==
    IF l.id # None THEN l.id
    ELSE IF acted'.visible = <<>> THEN None
    ELSE Some(acted'.visible[acted'.selected + 1])

\* C37: a Status line without an id is run on the task at the selection of
\* the visible list as it is when the line is run; on an empty visible list
\* nothing is called and the error is `no task selected`; a Status line
\* whose id is the id of no task records the failure of the store as an
\* error and leaves the vault as it is.
C37_StatusRunsOnSelection ==
    [][\A l \in StatusLines :
          (RunsLine(TypedStatus(l)) /\ l.tok # None /\ Named(l.tok[1]) # "") =>
              IF TargetOf(l) = None
              THEN /\ ex_result' = Result(TRUE, "no task selected", <<>>)
                   /\ files' = files
                   /\ calls' = calls
              ELSE /\ calls' = calls + 1
                   /\ last'.id = TargetOf(l)[1]
                   /\ IF TargetOf(l)[1] \in KnownIds(files)
                      THEN /\ last'.ok
                           /\ ~ex_result'[1].is_error
                           /\ \A p \in DOMAIN files :
                                 files'[p] # files[p] <=> files[p].fm.id = TargetOf(l)[1]
                      ELSE /\ ~last'.ok
                           /\ files' = files
                           /\ ex_result' = Result(TRUE, locate(files, TargetOf(l)[1]).err, <<>>)]_vars

\* `status done` has been run with the selection on the second visible task
C37_Witness ==
    /\ pressed = Pressed("Ex", "Enter")
    /\ acted.selected = 1
    /\ last.op = "set_status" /\ last.ok
    /\ last.id = acted.visible[2]
    /\ StoredStatus(files, last.id) = Some(S_done)
    /\ ex_result = Result(FALSE, "status set: {}", <<S_done>>)

\* a Status line without an id has been run on an empty vault
C37_WitnessEmpty ==
    /\ pressed = Pressed("Ex", "Enter")
    /\ ex_result = Result(TRUE, "no task selected", <<>>)
    /\ calls = 0

\* a Status line has named a task the vault does not hold
C37_WitnessUnknown ==
    /\ pressed = Pressed("Ex", "Enter")
    /\ last.op = "set_status" /\ ~last.ok
    /\ last.id = <<"t", "1">>
    /\ files = ManyTasks(0)
    /\ ex_result # None /\ ex_result[1].is_error

\* the key just handled was the character c, in the mode given
TypedIn(mode, c) ==
    /\ session = "running"
    /\ (IF ex_mode THEN "Ex" ELSE input_mode) = mode
    /\ pressed' = Pressed(mode, c)
    /\ lookup(keymap, <<c>>) = Some("Quit")

\* C38: the loop is left through the quit action only from Browsing; a
\* character bound to quit that is typed in ex mode, Filter, an Edit mode
\* or NewProject is appended to the buffer of the mode, in PickProject it
\* changes nothing, and in none of them the session ends.
C38_QuitOnlyInBrowsing ==
    [][/\ (session = "running" /\ session' = "quit") =>
             /\ ~ex_mode /\ input_mode = "None"
             /\ acted'.action = "Quit"
       /\ \A c \in {"q", "b"} :
             /\ TypedIn("Ex", c) =>
                   ex_input' = Append(ex_input, c) /\ ex_mode' /\ session' = "running"
             /\ TypedIn("Filter", c) =>
                   /\ filter' = Append(filter, c)
                   /\ input_mode' = "Filter" /\ session' = "running"
             /\ \A mode \in {"EditDue", "EditTitle", "EditTags", "NewProject"} :
                   TypedIn(mode, c) =>
                      /\ input_buf' = Append(input_buf, c)
                      /\ input_mode' = mode /\ session' = "running"
             /\ TypedIn("PickProject", c) =>
                   UNCHANGED <<storeVars, tuiVars>>]_vars

\* q has been typed into the filter, and the session goes on
C38_Witness ==
    /\ pressed = Pressed("Filter", "q")
    /\ input_mode = "Filter"
    /\ filter = <<"q">>
    /\ session = "running"

\* b, bound to quit by the configuration, has been typed into the title of
\* a new project
C38_WitnessBound ==
    /\ pressed = Pressed("NewProject", "b")
    /\ lookup(keymap, <<"b">>) = Some("Quit")
    /\ input_buf = <<"b">>
    /\ session = "running"

\* q has been pressed in PickProject
C38_WitnessPick ==
    /\ pressed = Pressed("PickProject", "q")
    /\ input_mode = "PickProject"
    /\ session = "running"

\* q has been pressed in Browsing
C38_WitnessQuit ==
    /\ pressed = Pressed("None", "q")
    /\ session = "quit"

\* the tags of the task a call of set_tags_csv has just written
TagsLeft == extract_frontmatter(files'[last'.path[1]]).fm.tags

\* the step is a call of set_tags_csv that returned Ok
SetTags == calls' = calls + 1 /\ last'.op = "set_tags_csv" /\ last'.ok

\* C39: set_tags_csv(id, text) leaves the task with the items of text, split
\* on commas and spaces, each without its leading '+' characters, as its
\* tags, and none of the tags it stores is the empty string, whatever the
\* text (items made of '+' alone included).
C39_NoEmptyTagStored ==
    [][SetTags =>
          /\ TagsLeft = tags_of_csv(last'.arg)
          /\ \A i \in DOMAIN TagsLeft : TagsLeft[i] # <<>>]_vars

\* the same for the texts none of whose items is made of '+' alone
C39_TagsOfLetteredItems ==
    [][(SetTags /\ \A item \in Range(split(last'.arg, {",", SP}, <<>>)) :
                      item = <<>> \/ "x" \in Range(item)) =>
          /\ TagsLeft = tags_of_csv(last'.arg)
          /\ \A i \in DOMAIN TagsLeft : TagsLeft[i] # <<>>]_vars

\* C40: in the window, a press of g that follows a press of g, with no other
\* key pressed between the two, runs go-to-top, however many frames without
\* a key press the window drew between them.
C40_ChordAcrossFrames ==
    [][(pressed.code = "g" /\ pressed'.code = "gg") =>
          /\ gui_action(app, GKey) = Some("GoTop")
          /\ app'.selected = 0]_vars

\* the same when no frame was drawn between the two presses
C40_ChordInConsecutiveFrames ==
    [][(pressed.code = "g" /\ pressed'.code = "gg" /\ app.last_key_g) =>
          /\ gui_action(app, GKey) = Some("GoTop")
          /\ app'.selected = 0]_vars

\* gg has moved the selection from the second row to the first
C40_WitnessTop ==
    /\ pressed = Pressed("Gui", "gg")
    /\ events = 3
    /\ app.selected = 0
    /\ ~app.last_key_g
    /\ Len(CHOOSE l \in list_tasks(files) : TRUE) > 1

====
